---------------------------- MODULE Spec2Model ----------------------------
(***************************************************************************)
(* A model of the merge engine of src/src/setup/merge-strategy.ts.         *)
(*                                                                         *)
(* Texts are TLA+ strings; TLC evaluates Len, SubSeq, Head, Tail and \o on *)
(* them, so every string operation of the source is computed character by  *)
(* character.  A merged file is written back and merged again on the next   *)
(* regeneration run, which is what makes the engine a state machine: the    *)
(* state is the text on disk, the generated text of the run, and the        *)
(* MergeResult the run returned.                                            *)
(***************************************************************************)
EXTENDS Integers, Sequences, FiniteSets, TLC

VARIABLES
    existing,   \* the text passed as `existing` to the last merge (the file)
    generated,  \* the text passed as `generated` to the last merge
    result,     \* the MergeResult of the last merge: content, preserved, added
    locals,     \* the locals of the last merge call at its return
    runs        \* number of merges done on this file

vars == <<existing, generated, result, locals, runs>>

\* ------------------------------------------------------------------------
\* Bounds of the model
\* ------------------------------------------------------------------------

\* Lines per Markdown input document.
MaxMdLines == 3
\* Regeneration runs over one file.
MaxRuns == 2
\* Keys per top-level mapping of a JSON input document.
MaxJsonKeys == 2
\* Lines per YAML file.
MaxYamlLines == 3
\* Keys per top-level mapping of a YAML tree.
MaxYamlKeys == 2
\* Characters per YAML scalar text.
MaxScalarLen == 3
\* Facts (files, directories, scripts, dependencies, manifest lines) per
\* project directory.
MaxProjectFacts == 2

\* ------------------------------------------------------------------------
\* JavaScript string primitives
\* ------------------------------------------------------------------------

Min(S) == CHOOSE m \in S : \A n \in S : m <= n
Max(S) == CHOOSE m \in S : \A n \in S : m >= n

\* s.charAt(i - 1)
Ch(s, i) == IF 1 <= i /\ i <= Len(s) THEN SubSeq(s, i, i) ELSE ""

\* The characters \s and String.prototype.trim treat as white space.
WhiteSpace == {" ", "\n", "\t", "\r"}
\* The characters the regular expression `.` does not match.
LineTerminators == {"\n", "\r"}

IsSpace(c) == c \in WhiteSpace

\* s.trim()
RECURSIVE TrimStart(_)
TrimStart(s) == IF s # "" /\ IsSpace(Head(s)) THEN TrimStart(Tail(s)) ELSE s
RECURSIVE TrimEnd(_)
TrimEnd(s) ==
    IF s # "" /\ IsSpace(Ch(s, Len(s))) THEN TrimEnd(SubSeq(s, 1, Len(s) - 1)) ELSE s
Trim(s) == TrimEnd(TrimStart(s))

\* s.substring(from), from counted from 0
From(s, from) == SubSeq(s, from + 1, Len(s))

\* s.indexOf(sub): the first index, counted from 0, or -1
RECURSIVE IndexFrom(_, _, _)
IndexFrom(s, sub, i) ==
    IF i + Len(sub) > Len(s) THEN -1
    ELSE IF SubSeq(s, i + 1, i + Len(sub)) = sub THEN i
    ELSE IndexFrom(s, sub, i + 1)
IndexOf(s, sub) == IndexFrom(s, sub, 0)

\* s.startsWith(p), s.endsWith(p), s.includes(p)
StartsWith(s, p) == Len(s) >= Len(p) /\ SubSeq(s, 1, Len(p)) = p
EndsWith(s, p) == Len(s) >= Len(p) /\ SubSeq(s, Len(s) - Len(p) + 1, Len(s)) = p
Includes(s, p) == IndexOf(s, p) >= 0

\* s.split("\n")
RECURSIVE SplitLines(_)
SplitLines(s) ==
    LET i == IndexOf(s, "\n")
    IN  IF i < 0 THEN <<s>>
        ELSE <<SubSeq(s, 1, i)>> \o SplitLines(From(s, i + 1))

\* parts.join(sep)
RECURSIVE Join(_, _)
Join(parts, sep) ==
    IF parts = <<>> THEN ""
    ELSE IF Len(parts) = 1 THEN parts[1]
    ELSE parts[1] \o sep \o Join(Tail(parts), sep)

\* The characters a-z and 0-9, and toLowerCase on A-Z.
LowerAlnum ==
    {"a", "b", "c", "d", "e", "f", "g", "h", "i", "j", "k", "l", "m", "n", "o", "p",
     "q", "r", "s", "t", "u", "v", "w", "x", "y", "z",
     "0", "1", "2", "3", "4", "5", "6", "7", "8", "9"}
Lower ==
    [A |-> "a", B |-> "b", C |-> "c", D |-> "d", E |-> "e", F |-> "f", G |-> "g",
     H |-> "h", I |-> "i", J |-> "j", K |-> "k", L |-> "l", M |-> "m", N |-> "n",
     O |-> "o", P |-> "p", Q |-> "q", R |-> "r", S |-> "s", T |-> "t", U |-> "u",
     V |-> "v", W |-> "w", X |-> "x", Y |-> "y", Z |-> "z"]

\* c.toLowerCase() for one character
LowerChar(c) == IF c \in DOMAIN Lower THEN Lower[c] ELSE c

\* s.toLowerCase()
ToLowerCase(s) ==
    LET lower[i \in 0..Len(s)] ==
            IF i = 0 THEN "" ELSE lower[i - 1] \o LowerChar(Ch(s, i))
    IN  lower[Len(s)]

\* s.replace(/[^a-z0-9\s]/g, "")
StripSpecial(s) ==
    LET strip[i \in 0..Len(s)] ==
            IF i = 0 THEN ""
            ELSE strip[i - 1] \o
                 (IF Ch(s, i) \in LowerAlnum \/ IsSpace(Ch(s, i)) THEN Ch(s, i) ELSE "")
    IN  strip[Len(s)]

\* The elements of a sequence, and whether a sequence repeats none.
Range(f) == {f[i] : i \in DOMAIN f}
NoDuplicates(f) == \A i, j \in DOMAIN f : f[i] = f[j] => i = j

\* ------------------------------------------------------------------------
\* Markdown: parseMarkdownSections, normalizeHeader
\* ------------------------------------------------------------------------

PREAMBLE == "__preamble__"

\* Number of leading '#' of a line.
LeadingHashes(line) ==
    LET other == {i \in 1..Len(line) : Ch(line, i) # "#"}
    IN  IF other = {} THEN Len(line) ELSE Min(other) - 1

\* (.+)$ : one or more characters, none a line terminator, up to the end.
DotPlus(s) == s # "" /\ \A i \in 1..Len(s) : Ch(s, i) \notin LineTerminators

\* line.match(/^(#{1,6})\s+(.+)$/): the lengths k of the white space run that
\* \s+ may take so that (.+)$ still matches the rest; the match is greedy.
HeaderSplits(line) ==
    LET n == LeadingHashes(line)
    IN  IF n < 1 \/ n > 6 THEN {}
        ELSE {k \in 1..(Len(line) - n) :
                /\ \A j \in 1..k : IsSpace(Ch(line, n + j))
                /\ DotPlus(From(line, n + k))}

IsHeaderLine(line) == HeaderSplits(line) # {}

\* match[1].length
HeaderLevel(line) == LeadingHashes(line)
\* match[2].trim()
HeaderText(line) ==
    Trim(From(line, LeadingHashes(line) + Max(HeaderSplits(line))))

\* rawHeader + (content ? "\n" + content : "")
FullText(rawHeader, content) ==
    rawHeader \o (IF content # "" THEN "\n" \o content ELSE "")

\* A section closed with the lines collected for it.
CloseSection(cur, contentLines) ==
    LET content == Join(contentLines, "\n")
    IN  [header |-> cur.header, level |-> cur.level, rawHeader |-> cur.rawHeader,
         content |-> content, fullText |-> FullText(cur.rawHeader, content)]

\* The loop over the lines and the push of the last section.  `cur` is
\* currentSection (hasCur = FALSE while it is null).
RECURSIVE SectionLoop(_, _, _, _, _, _)
SectionLoop(lines, i, sections, hasCur, cur, contentLines) ==
    IF i > Len(lines)
    THEN [sections |-> IF hasCur THEN Append(sections, CloseSection(cur, contentLines))
                       ELSE sections,
          contentLines |-> contentLines]
    ELSE LET line == lines[i] IN
         IF IsHeaderLine(line)
         THEN SectionLoop(lines, i + 1,
                  IF hasCur THEN Append(sections, CloseSection(cur, contentLines))
                  ELSE sections,
                  TRUE,
                  [header |-> HeaderText(line), level |-> HeaderLevel(line),
                   rawHeader |-> line],
                  <<>>)
         ELSE SectionLoop(lines, i + 1, sections, hasCur, cur,
                          Append(contentLines, line))

PreambleSection(text) ==
    [header |-> PREAMBLE, level |-> 0, rawHeader |-> "",
     content |-> text, fullText |-> text]

parseMarkdownSections(content) ==
    LET lines == SplitLines(content)
        loop == SectionLoop(lines, 1, <<>>, FALSE,
                            [header |-> "", level |-> 0, rawHeader |-> ""], <<>>)
        sections == loop.sections
    IN  IF Len(sections) = 0 /\ Len(loop.contentLines) > 0
        THEN <<PreambleSection(Join(loop.contentLines, "\n"))>>
        ELSE IF Len(sections) > 0
        THEN LET firstHeaderIndex == IndexOf(content, sections[1].rawHeader)
                 preamble == Trim(SubSeq(content, 1, firstHeaderIndex))
             IN  IF firstHeaderIndex > 0 /\ preamble # ""
                 THEN <<PreambleSection(preamble)>> \o sections
                 ELSE sections
        ELSE sections

normalizeHeader(header) == Trim(StripSpecial(ToLowerCase(header)))

\* ------------------------------------------------------------------------
\* Markdown: mergeMarkdown
\* ------------------------------------------------------------------------

\* A lookup that compares the header text as written with the key.
HasByHeaderAsWritten(sections, key) ==
    \E i \in 1..Len(sections) : sections[i].header = key

\* existingByHeader.get(key): the Map is filled in document order, so a later
\* section with the same normalized header replaces an earlier one.
HasByHeader(sections, key) ==
    \E i \in 1..Len(sections) : normalizeHeader(sections[i].header) = key
GetByHeader(sections, key) ==
    sections[Max({i \in 1..Len(sections) : normalizeHeader(sections[i].header) = key})]

\* The headers of the sections that are not the preamble sentinel, in order.
RECURSIVE HeadersOf(_)
HeadersOf(sections) ==
    IF sections = <<>> THEN <<>>
    ELSE (IF Head(sections).header # PREAMBLE THEN <<Head(sections).header>> ELSE <<>>)
         \o HeadersOf(Tail(sections))

\* First loop: the generated sections in order.
RECURSIVE GeneratedLoop(_, _, _, _)
GeneratedLoop(existingSections, generatedSections, i, acc) ==
    IF i > Len(generatedSections) THEN acc
    ELSE LET genSection == generatedSections[i]
             normalizedHeader == normalizeHeader(genSection.header)
         IN  IF HasByHeader(existingSections, normalizedHeader)
             THEN LET existingSection == GetByHeader(existingSections, normalizedHeader)
                  IN  GeneratedLoop(existingSections, generatedSections, i + 1,
                        [mergedSections |-> Append(acc.mergedSections, existingSection.fullText),
                         preserved |-> IF existingSection.header # PREAMBLE
                                       THEN Append(acc.preserved, existingSection.header)
                                       ELSE acc.preserved,
                         added |-> acc.added,
                         usedExistingHeaders |-> acc.usedExistingHeaders \cup {normalizedHeader}])
             ELSE GeneratedLoop(existingSections, generatedSections, i + 1,
                        [mergedSections |-> Append(acc.mergedSections, genSection.fullText),
                         preserved |-> acc.preserved,
                         added |-> IF genSection.header # PREAMBLE
                                   THEN Append(acc.added, genSection.header)
                                   ELSE acc.added,
                         usedExistingHeaders |-> acc.usedExistingHeaders])

\* Whether the second loop appends an existing section.
AppendsCustom(existSection, usedExistingHeaders) ==
    /\ normalizeHeader(existSection.header) \notin usedExistingHeaders
    /\ existSection.header # PREAMBLE

\* Second loop: the existing sections no generated section used.
RECURSIVE CustomLoop(_, _, _)
CustomLoop(existingSections, i, acc) ==
    IF i > Len(existingSections) THEN acc
    ELSE LET existSection == existingSections[i]
         IN  IF AppendsCustom(existSection, acc.usedExistingHeaders)
             THEN CustomLoop(existingSections, i + 1,
                        [acc EXCEPT !.mergedSections = Append(@, existSection.fullText),
                                    !.preserved = Append(@, existSection.header)])
             ELSE CustomLoop(existingSections, i + 1, acc)

\* mergedSections.join("\n\n").trim() + "\n"
JoinSections(mergedSections) == Trim(Join(mergedSections, "\n\n")) \o "\n"

\* !text || text.trim() === ""
IsBlank(text) == text = "" \/ Trim(text) = ""

\* mergeMarkdown with its locals at the return: branch names the return
\* statement taken.
MergeMarkdownRun(existingText, generatedText) ==
    IF IsBlank(existingText)
    THEN [content |-> generatedText, preserved |-> <<>>,
          added |-> HeadersOf(parseMarkdownSections(generatedText)),
          branch |-> "emptyExisting", mergedSections |-> <<>>]
    ELSE IF IsBlank(generatedText)
    THEN [content |-> existingText,
          preserved |-> HeadersOf(parseMarkdownSections(existingText)),
          added |-> <<>>,
          branch |-> "emptyGenerated", mergedSections |-> <<>>]
    ELSE LET existingSections == parseMarkdownSections(existingText)
             generatedSections == parseMarkdownSections(generatedText)
             first == GeneratedLoop(existingSections, generatedSections, 1,
                        [mergedSections |-> <<>>, preserved |-> <<>>, added |-> <<>>,
                         usedExistingHeaders |-> {}])
             second == CustomLoop(existingSections, 1, first)
         IN  [content |-> JoinSections(second.mergedSections),
              preserved |-> second.preserved, added |-> second.added,
              branch |-> "merged", mergedSections |-> second.mergedSections]

MergeResultOf(run) ==
    [content |-> run.content, preserved |-> run.preserved, added |-> run.added]

mergeMarkdown(existingText, generatedText) ==
    MergeResultOf(MergeMarkdownRun(existingText, generatedText))

\* ------------------------------------------------------------------------
\* Markdown: the regeneration state machine
\* ------------------------------------------------------------------------

\* The lines Markdown input documents are made of: headers that normalize to
\* the same and to different keys, body text, a blank line, and a header whose
\* text is the preamble sentinel.
MdLines == {"# A", "## a!", "# B", "x", "", "# __preamble__"}

\* The documents of the concrete section-merge scenario.
ScenarioExistingMd == "# Title\nOld\n\n# Custom\nKeepMe\n"
ScenarioGeneratedMd == "# Title\nNew\n\n# New Section\nAdded\n"

MdDocs ==
    {Join(ls, "\n") : ls \in UNION {[1..n -> MdLines] : n \in 0..MaxMdLines}}
        \cup {ScenarioExistingMd, ScenarioGeneratedMd}

NoResult == [content |-> "", preserved |-> <<>>, added |-> <<>>]
NoLocals == [branch |-> "none"]

InitMarkdown ==
    /\ existing \in MdDocs
    /\ generated = ""
    /\ result = NoResult
    /\ locals = NoLocals
    /\ runs = 0

\* The first generation run over the file: the caller passes the file's text
\* and a freshly generated text, and writes the content back.
MarkdownMerge ==
    /\ runs = 0
    /\ \E g \in MdDocs :
         \E run \in {MergeMarkdownRun(existing, g)} :
             /\ generated' = g
             /\ result' = MergeResultOf(run)
             /\ locals' = [branch |-> run.branch, mergedSections |-> run.mergedSections]
    /\ existing' = existing
    /\ runs' = 1

\* A later run: the file now holds the content of the previous run, the
\* generated text is the same.
MarkdownRegenerate ==
    /\ runs >= 1
    /\ runs < MaxRuns
    /\ \E run \in {MergeMarkdownRun(result.content, generated)} :
           /\ result' = MergeResultOf(run)
           /\ locals' = [branch |-> run.branch, mergedSections |-> run.mergedSections]
    /\ existing' = result.content
    /\ generated' = generated
    /\ runs' = runs + 1

NextMarkdown == MarkdownMerge \/ MarkdownRegenerate

SpecMarkdown == InitMarkdown /\ [][NextMarkdown]_vars

\* ------------------------------------------------------------------------
\* State machine of parseMarkdownSections: a document is split into its
\* sections
\* ------------------------------------------------------------------------

\* Documents whose lines before the first header line hold the text of that
\* header line.
HeaderTextEarlierDocs ==
    {" # A\n# A", "x # A\ny\n# A\nz", "see # B below\n\n# B\ntext", "## A\n# A"}

InitMarkdownParse ==
    /\ existing \in MdDocs \cup HeaderTextEarlierDocs
    /\ generated = ""
    /\ result = NoResult
    /\ locals = NoLocals
    /\ runs = 0

\* parseMarkdownSections(content)
MarkdownParse ==
    /\ runs = 0
    /\ locals' = [branch |-> "parsed", sections |-> parseMarkdownSections(existing)]
    /\ runs' = 1
    /\ UNCHANGED <<existing, generated, result>>

NextMarkdownParse == MarkdownParse

SpecMarkdownParse == InitMarkdownParse /\ [][NextMarkdownParse]_vars

\* ------------------------------------------------------------------------
\* JavaScript values: what JSON.parse builds and the mergers handle
\* ------------------------------------------------------------------------

\* A value is a record tagged by t: "null", "bool" (b), "num" (n), "str" (s),
\* "arr" (items), "obj" (kv: the own enumerable properties in insertion
\* order, each [k, v]), "function", "objproto" (Object.prototype itself) and
\* "undefined".  Every "obj" has Object.prototype as its prototype.
Null == [t |-> "null"]
Undefined == [t |-> "undefined"]
Function == [t |-> "function"]
ObjectPrototype == [t |-> "objproto"]
Bool(b) == [t |-> "bool", b |-> b]
Num(n) == [t |-> "num", n |-> n]
Str(s) == [t |-> "str", s |-> s]
Arr(items) == [t |-> "arr", items |-> items]
Obj(kv) == [t |-> "obj", kv |-> kv]

\* The property names every object inherits from Object.prototype.
InheritedNames ==
    {"constructor", "__proto__", "hasOwnProperty", "isPrototypeOf",
     "propertyIsEnumerable", "toLocaleString", "toString", "valueOf",
     "__defineGetter__", "__defineSetter__", "__lookupGetter__", "__lookupSetter__"}

\* Object.keys(v) of an object or an array
OwnKeys(v) ==
    IF v.t = "obj" THEN [i \in 1..Len(v.kv) |-> v.kv[i].k]
    ELSE <<>>

HasOwn(v, key) == v.t = "obj" /\ \E i \in 1..Len(v.kv) : v.kv[i].k = key

\* key in v: own properties and those of the prototype chain
HasProperty(v, key) == HasOwn(v, key) \/ key \in InheritedNames

\* v[key]: an own property shadows the inherited one; __proto__ is the accessor
\* that returns the prototype, which is null for Object.prototype
GetProperty(v, key) ==
    IF HasOwn(v, key)
    THEN v.kv[CHOOSE i \in 1..Len(v.kv) : v.kv[i].k = key].v
    ELSE IF key = "__proto__"
    THEN (IF v.t = "objproto" THEN Null ELSE ObjectPrototype)
    ELSE IF key \in InheritedNames THEN Function
    ELSE Undefined

\* result[key] = value on an object built by assignments: an own property is
\* updated in place, a new one is appended, and without an own __proto__ the
\* assignment to __proto__ runs the inherited setter, which adds no property.
SetProperty(obj, key, value) ==
    IF HasOwn(obj, key)
    THEN Obj([i \in 1..Len(obj.kv) |->
                IF obj.kv[i].k = key THEN [k |-> key, v |-> value] ELSE obj.kv[i]])
    ELSE IF key = "__proto__" THEN obj
    ELSE Obj(Append(obj.kv, [k |-> key, v |-> value]))

\* CreateDataProperty, as JSON.parse and the spread {...existing} define
\* properties: __proto__ becomes an own property like any other.
DefineProperty(obj, key, value) ==
    IF HasOwn(obj, key) THEN SetProperty(obj, key, value)
    ELSE Obj(Append(obj.kv, [k |-> key, v |-> value]))

\* typeof v === "object" && v !== null && !Array.isArray(v)
IsPlainObject(v) == v.t \in {"obj", "objproto"}

\* ------------------------------------------------------------------------
\* JSON.parse and JSON.stringify(value, null, 2), on integers, strings,
\* literals, arrays and objects
\* ------------------------------------------------------------------------

Digits == "0123456789"
IsDigit(c) == c # "" /\ Includes(Digits, c)
DigitValue(c) == IndexOf(Digits, c)

JsonWhiteSpace == {" ", "\n", "\t", "\r"}

RECURSIVE SkipWs(_, _)
SkipWs(s, i) ==
    IF i <= Len(s) /\ Ch(s, i) \in JsonWhiteSpace THEN SkipWs(s, i + 1) ELSE i

Fail == [ok |-> FALSE]
Parsed(val, next) == [ok |-> TRUE, val |-> val, next |-> next]

\* The characters of a string literal from position i (after the opening
\* quote) to the closing quote.
RECURSIVE ParseChars(_, _, _)
ParseChars(s, i, acc) ==
    IF i > Len(s) THEN Fail
    ELSE LET c == Ch(s, i) IN
         IF c = "\"" THEN Parsed(acc, i + 1)
         ELSE IF c \in {"\n", "\t", "\r"} THEN Fail
         ELSE IF c = "\\"
         THEN LET e == Ch(s, i + 1) IN
              IF e \in {"\"", "\\", "/"} THEN ParseChars(s, i + 2, acc \o e)
              ELSE IF e = "n" THEN ParseChars(s, i + 2, acc \o "\n")
              ELSE IF e = "t" THEN ParseChars(s, i + 2, acc \o "\t")
              ELSE IF e = "r" THEN ParseChars(s, i + 2, acc \o "\r")
              ELSE Fail
         ELSE ParseChars(s, i + 1, acc \o c)

RECURSIVE ParseDigits(_, _, _)
ParseDigits(s, i, acc) ==
    IF i <= Len(s) /\ IsDigit(Ch(s, i))
    THEN ParseDigits(s, i + 1, acc * 10 + DigitValue(Ch(s, i)))
    ELSE Parsed(acc, i)

\* An integer: no leading zero, no fraction, no exponent.
ParseNumber(s, i) ==
    LET neg == Ch(s, i) = "-"
        j == IF neg THEN i + 1 ELSE i
    IN  IF ~IsDigit(Ch(s, j)) THEN Fail
        ELSE IF Ch(s, j) = "0" /\ IsDigit(Ch(s, j + 1)) THEN Fail
        ELSE LET d == ParseDigits(s, j, 0)
             IN  Parsed(Num(IF neg THEN 0 - d.val ELSE d.val), d.next)

RECURSIVE ParseValue(_, _)
RECURSIVE ParseMembers(_, _, _)
RECURSIVE ParseElements(_, _, _)

\* The members of an object from position i, after "{" or ",".
ParseMembers(s, i, obj) ==
    LET k == SkipWs(s, i) IN
    IF Ch(s, k) # "\"" THEN Fail
    ELSE LET key == ParseChars(s, k + 1, "") IN
         IF ~key.ok THEN Fail
         ELSE LET c == SkipWs(s, key.next) IN
              IF Ch(s, c) # ":" THEN Fail
              ELSE LET v == ParseValue(s, SkipWs(s, c + 1)) IN
                   IF ~v.ok THEN Fail
                   ELSE LET e == SkipWs(s, v.next)
                            next == DefineProperty(obj, key.val, v.val)
                        IN  IF Ch(s, e) = "," THEN ParseMembers(s, e + 1, next)
                            ELSE IF Ch(s, e) = "}" THEN Parsed(next, e + 1)
                            ELSE Fail

\* The elements of an array from position i, after "[" or ",".
ParseElements(s, i, items) ==
    LET v == ParseValue(s, SkipWs(s, i)) IN
    IF ~v.ok THEN Fail
    ELSE LET e == SkipWs(s, v.next)
             next == Append(items, v.val)
         IN  IF Ch(s, e) = "," THEN ParseElements(s, e + 1, next)
             ELSE IF Ch(s, e) = "]" THEN Parsed(Arr(next), e + 1)
             ELSE Fail

ParseValue(s, i) ==
    LET c == Ch(s, i) IN
    IF c = "{"
    THEN (IF Ch(s, SkipWs(s, i + 1)) = "}" THEN Parsed(Obj(<<>>), SkipWs(s, i + 1) + 1)
          ELSE ParseMembers(s, i + 1, Obj(<<>>)))
    ELSE IF c = "["
    THEN (IF Ch(s, SkipWs(s, i + 1)) = "]" THEN Parsed(Arr(<<>>), SkipWs(s, i + 1) + 1)
          ELSE ParseElements(s, i + 1, <<>>))
    ELSE IF c = "\"" THEN LET str == ParseChars(s, i + 1, "")
                          IN  IF str.ok THEN Parsed(Str(str.val), str.next) ELSE Fail
    ELSE IF c = "-" \/ IsDigit(c) THEN ParseNumber(s, i)
    ELSE IF StartsWith(From(s, i - 1), "true") THEN Parsed(Bool(TRUE), i + 4)
    ELSE IF StartsWith(From(s, i - 1), "false") THEN Parsed(Bool(FALSE), i + 5)
    ELSE IF StartsWith(From(s, i - 1), "null") THEN Parsed(Null, i + 4)
    ELSE Fail

\* JSON.parse(text): [ok |-> FALSE] stands for the SyntaxError it throws.
JsonParse(text) ==
    LET v == ParseValue(text, SkipWs(text, 1)) IN
    IF v.ok /\ SkipWs(text, v.next) > Len(text) THEN [ok |-> TRUE, val |-> v.val]
    ELSE Fail

RECURSIVE ToDecimal(_)
ToDecimal(n) ==
    IF n < 0 THEN "-" \o ToDecimal(0 - n)
    ELSE IF n < 10 THEN Ch(Digits, n + 1)
    ELSE ToDecimal(n \div 10) \o Ch(Digits, (n % 10) + 1)

\* The escapes JSON.stringify writes inside a string literal.
Escapes == [c \in {"\"", "\\", "\n", "\t", "\r"} |->
              CASE c = "\"" -> "\\\""
                [] c = "\\" -> "\\\\"
                [] c = "\n" -> "\\n"
                [] c = "\t" -> "\\t"
                [] c = "\r" -> "\\r"]

Quote(s) ==
    LET q[i \in 0..Len(s)] ==
            IF i = 0 THEN ""
            ELSE q[i - 1] \o (IF Ch(s, i) \in DOMAIN Escapes THEN Escapes[Ch(s, i)]
                              ELSE Ch(s, i))
    IN  "\"" \o q[Len(s)] \o "\""

\* A property whose value is undefined or a function is left out of an
\* object and written as null in an array.
Serializable(v) == v.t \notin {"undefined", "function"}

RECURSIVE Stringify(_, _)
Stringify(v, indent) ==
    LET inner == indent \o "  " IN
    CASE v.t = "null" -> "null"
      [] v.t = "bool" -> (IF v.b THEN "true" ELSE "false")
      [] v.t = "num" -> ToDecimal(v.n)
      [] v.t = "str" -> Quote(v.s)
      [] v.t = "arr" ->
            IF v.items = <<>> THEN "[]"
            ELSE "[\n"
                 \o Join([i \in 1..Len(v.items) |->
                            inner \o (IF Serializable(v.items[i])
                                      THEN Stringify(v.items[i], inner)
                                      ELSE "null")], ",\n")
                 \o "\n" \o indent \o "]"
      [] v.t = "obj" ->
            LET props == SelectSeq(v.kv, LAMBDA p : Serializable(p.v)) IN
            IF props = <<>> THEN "{}"
            ELSE "{\n"
                 \o Join([i \in 1..Len(props) |->
                            inner \o Quote(props[i].k) \o ": "
                                  \o Stringify(props[i].v, inner)], ",\n")
                 \o "\n" \o indent \o "}"
      [] v.t = "objproto" -> "{}"
      [] OTHER -> "undefined"

\* JSON.stringify(value, null, 2)
JsonStringify(v) == Stringify(v, "")

\* ------------------------------------------------------------------------
\* collectKeys, deepMergeJson, mergeJson
\* ------------------------------------------------------------------------

\* The provenance lists of a run: preserved and added are the arrays the
\* code fills; preservedAt and addedAt record, push for push, the sequence of
\* keys from the root at which the push was made (history, not read by the
\* code).
NoProvenance ==
    [preserved |-> <<>>, added |-> <<>>, preservedAt |-> <<>>, addedAt |-> <<>>]

PushPreserved(prov, fullPath, at) ==
    [prov EXCEPT !.preserved = Append(@, fullPath), !.preservedAt = Append(@, at)]

PushAdded(prov, fullPath, at) ==
    [prov EXCEPT !.added = Append(@, fullPath), !.addedAt = Append(@, at)]

\* path ? `${path}.${key}` : key, with the key alone in place of the path
FullPathKeyOnly(path, key) == key

\* path ? `${path}.${key}` : key
FullPath(path, key) == IF path # "" THEN path \o "." \o key ELSE key

\* Object.keys(v) with the values: the own properties of an object, the
\* indices of an array.
Entries(v) ==
    IF v.t = "obj" THEN v.kv
    ELSE IF v.t = "arr"
    THEN [i \in 1..Len(v.items) |-> [k |-> ToDecimal(i - 1), v |-> v.items[i]]]
    ELSE <<>>

\* collectKeys(obj, path, keys): keys is a pair [paths, at] of lists.
RECURSIVE collectKeys(_, _, _, _)
RECURSIVE CollectLoop(_, _, _, _, _)
CollectLoop(entries, i, path, at, keys) ==
    IF i > Len(entries) THEN keys
    ELSE LET key == entries[i].k
             fullPath == FullPath(path, key)
             pushed == [paths |-> Append(keys.paths, fullPath),
                        at |-> Append(keys.at, Append(at, key))]
         IN  CollectLoop(entries, i + 1, path, at,
                         IF IsPlainObject(entries[i].v)
                         THEN collectKeys(entries[i].v, fullPath, Append(at, key), pushed)
                         ELSE pushed)

\* collectKeys that pushes nothing
collectKeysNothing(obj, path, at, keys) == keys

collectKeys(obj, path, at, keys) ==
    IF obj.t \notin {"obj", "arr", "objproto"} THEN keys
    ELSE CollectLoop(Entries(obj), 1, path, at, keys)

NoKeys == [paths |-> <<>>, at |-> <<>>]

\* deepMergeJson: st carries the result object under construction and the
\* provenance lists, which all levels of the recursion share.
RECURSIVE deepMergeJson(_, _, _, _, _)
RECURSIVE ExistingKeysLoop(_, _, _, _, _, _)
RECURSIVE GeneratedKeysLoop(_, _, _, _, _, _)

\* for (const key of Object.keys(existing)) { ... }
ExistingKeysLoop(existingObj, generatedObj, path, at, i, st) ==
    IF i > Len(existingObj.kv) THEN st
    ELSE LET key == existingObj.kv[i].k
             fullPath == FullPath(path, key)
             mine == GetProperty(existingObj, key)
             theirs == GetProperty(generatedObj, key)
             keep == [result |-> SetProperty(st.result, key, mine),
                      prov |-> PushPreserved(st.prov, fullPath, Append(at, key))]
         IN  ExistingKeysLoop(existingObj, generatedObj, path, at, i + 1,
               IF ~HasProperty(generatedObj, key) THEN keep
               ELSE IF IsPlainObject(mine) /\ IsPlainObject(theirs)
               THEN LET sub == deepMergeJson(mine, theirs, fullPath, Append(at, key), st.prov)
                    IN  [result |-> SetProperty(st.result, key, sub.result),
                         prov |-> sub.prov]
               ELSE keep)

\* for (const key of Object.keys(generated)) { if (!(key in existing)) ... }
GeneratedKeysLoop(existingObj, generatedObj, path, at, i, st) ==
    IF i > Len(OwnKeys(generatedObj)) THEN st
    ELSE LET key == generatedObj.kv[i].k
             fullPath == FullPath(path, key)
         IN  GeneratedKeysLoop(existingObj, generatedObj, path, at, i + 1,
               IF ~HasProperty(existingObj, key)
               THEN [result |-> SetProperty(st.result, key, GetProperty(generatedObj, key)),
                     prov |-> PushAdded(st.prov, fullPath, Append(at, key))]
               ELSE st)

deepMergeJson(existingObj, generatedObj, path, at, prov) ==
    GeneratedKeysLoop(existingObj, generatedObj, path, at, 1,
        ExistingKeysLoop(existingObj, generatedObj, path, at, 1,
                         [result |-> Obj(<<>>), prov |-> prov]))

\* typeof v !== "object" || v === null || Array.isArray(v)
IsNotObject(v) == v.t # "obj"

PARSE_ERROR == "(parse error - kept existing)"
ROOT == "(root)"

\* The catch clause without the sentinel in preserved
CatchResultUnmarked(existingText) ==
    [content |-> existingText, preserved |-> <<>>, added |-> <<>>]

\* catch { return { content: existing, preserved: [...], added } }
CatchResult(existingText) ==
    [content |-> existingText, preserved |-> <<PARSE_ERROR>>, added |-> <<>>]

\* mergeJson with its locals at the return: branch names the return
\* statement taken.
MergeJsonRun(existingText, generatedText) ==
    LET existingParse == JsonParse(existingText)
        generatedParse == JsonParse(generatedText)
        base == [prov |-> NoProvenance, existingParse |-> existingParse,
                 generatedParse |-> generatedParse, merged |-> Undefined]
    IN
    IF IsBlank(existingText)
    THEN IF generatedParse.ok
         THEN LET keys == collectKeys(generatedParse.val, "", <<>>, NoKeys) IN
              [base EXCEPT !.prov.added = keys.paths, !.prov.addedAt = keys.at]
                @@ [content |-> JsonStringify(generatedParse.val) \o "\n",
                    branch |-> "emptyExisting"]
         ELSE base @@ [content |-> generatedText, branch |-> "emptyExistingUnparsed"]
    ELSE IF IsBlank(generatedText)
    THEN IF existingParse.ok
         THEN LET keys == collectKeys(existingParse.val, "", <<>>, NoKeys) IN
              [base EXCEPT !.prov.preserved = keys.paths, !.prov.preservedAt = keys.at]
                @@ [content |-> JsonStringify(existingParse.val) \o "\n",
                    branch |-> "emptyGenerated"]
         ELSE base @@ [content |-> existingText, branch |-> "emptyGeneratedUnparsed"]
    ELSE IF ~existingParse.ok \/ ~generatedParse.ok
    THEN [base EXCEPT !.prov.preserved = CatchResult(existingText).preserved,
                      !.prov.preservedAt = <<<<>>>>]
           @@ [content |-> CatchResult(existingText).content, branch |-> "parseError"]
    ELSE IF IsNotObject(existingParse.val)
    THEN [base EXCEPT !.prov.preserved = <<ROOT>>, !.prov.preservedAt = <<<<>>>>]
           @@ [content |-> JsonStringify(existingParse.val) \o "\n",
               branch |-> "existingNotObject"]
    ELSE IF IsNotObject(generatedParse.val)
    THEN LET keys == collectKeys(existingParse.val, "", <<>>, NoKeys) IN
         [base EXCEPT !.prov.preserved = keys.paths, !.prov.preservedAt = keys.at]
           @@ [content |-> JsonStringify(existingParse.val) \o "\n",
               branch |-> "generatedNotObject"]
    ELSE LET st == deepMergeJson(existingParse.val, generatedParse.val, "", <<>>,
                                 NoProvenance)
         IN  [base EXCEPT !.prov = st.prov, !.merged = st.result]
               @@ [content |-> JsonStringify(st.result) \o "\n", branch |-> "merged"]

JsonResultOf(run) ==
    [content |-> run.content, preserved |-> run.prov.preserved, added |-> run.prov.added]

JsonLocalsOf(run) ==
    [branch |-> run.branch, existingParse |-> run.existingParse,
     generatedParse |-> run.generatedParse, merged |-> run.merged,
     preservedAt |-> run.prov.preservedAt, addedAt |-> run.prov.addedAt]

mergeJson(existingText, generatedText) == JsonResultOf(MergeJsonRun(existingText, generatedText))

\* ------------------------------------------------------------------------
\* State machine of a JSON file that is merged with a generated text and
\* then regenerated
\* ------------------------------------------------------------------------

JsonKeys == <<"a", "constructor", "__proto__">>

\* The values a key of a document holds: a number, a list, an empty mapping
\* and mappings with one key, one of them two levels deep.  The number tells the two sides apart.
JsonValues(n) ==
    {Num(n), Arr(<<Num(n)>>), Obj(<<>>),
     Obj(<<[k |-> "a", v |-> Num(n)]>>), Obj(<<[k |-> "b", v |-> Num(n)]>>),
     Obj(<<[k |-> "b", v |-> Obj(<<[k |-> "c", v |-> Num(n)]>>)]>>)}

\* The mappings with at most MaxJsonKeys of the keys, in the order of JsonKeys.
RECURSIVE JsonObjectsFrom(_, _, _)
JsonObjectsFrom(i, room, n) ==
    IF i > Len(JsonKeys) \/ room = 0 THEN {<<>>}
    ELSE JsonObjectsFrom(i + 1, room, n)
         \cup {<<[k |-> JsonKeys[i], v |-> v]>> \o rest :
                 v \in JsonValues(n), rest \in JsonObjectsFrom(i + 1, room - 1, n)}

JsonObjects(n) == {Obj(kv) : kv \in JsonObjectsFrom(1, MaxJsonKeys, n)}

ExampleExistingJson == "{\"a\":1,\"b\":{\"c\":2}}"
ExampleGeneratedJson == "{\"a\":99,\"b\":{\"c\":100,\"d\":3},\"e\":5}"

\* A key that contains the path separator, next to the nested key it reads like.
DottedKeyJson == "{\"a\":{\"b\":1},\"a.b\":2}"

\* Texts either side can hold besides the mappings: empty, blank, invalid,
\* roots that are no mapping, the documented example and a dotted key.
OtherJsonDocs ==
    {"", " \n", "{not json", "{\"a\":1}", "[1]", "7", "null", "\"s\"",
     ExampleExistingJson, ExampleGeneratedJson, DottedKeyJson}

ExistingJsonDocs == {JsonStringify(o) \o "\n" : o \in JsonObjects(1)} \cup OtherJsonDocs
GeneratedJsonDocs == {JsonStringify(o) \o "\n" : o \in JsonObjects(2)} \cup OtherJsonDocs

InitJson ==
    /\ existing \in ExistingJsonDocs
    /\ generated = ""
    /\ result = NoResult
    /\ locals = NoLocals
    /\ runs = 0

\* The first generation run over the file.
JsonMerge ==
    /\ runs = 0
    /\ \E g \in GeneratedJsonDocs :
         \E run \in {MergeJsonRun(existing, g)} :
             /\ generated' = g
             /\ result' = JsonResultOf(run)
             /\ locals' = JsonLocalsOf(run)
    /\ existing' = existing
    /\ runs' = 1

\* A later run: the file now holds the content of the previous run, the
\* generated text is the same.
JsonRegenerate ==
    /\ runs >= 1
    /\ runs < MaxRuns
    /\ \E run \in {MergeJsonRun(result.content, generated)} :
           /\ result' = JsonResultOf(run)
           /\ locals' = JsonLocalsOf(run)
    /\ existing' = result.content
    /\ generated' = generated
    /\ runs' = runs + 1

NextJson == JsonMerge \/ JsonRegenerate

SpecJson == InitJson /\ [][NextJson]_vars

\* ------------------------------------------------------------------------
\* YAML: parseYamlValue, parseSimpleYaml
\* ------------------------------------------------------------------------

\* value.slice(1, -1)
SliceInner(value) == SubSeq(value, 2, Len(value) - 1)

IsQuoted(value) ==
    \/ (StartsWith(value, "\"") /\ EndsWith(value, "\""))
    \/ (StartsWith(value, "'") /\ EndsWith(value, "'"))

\* The texts Number(value) turns into a number, among the texts of the
\* model: decimal integers with an optional sign.
IsIntegerText(value) ==
    LET digits == IF Ch(value, 1) \in {"-", "+"} THEN From(value, 1) ELSE value
    IN  digits # "" /\ \A i \in 1..Len(digits) : IsDigit(Ch(digits, i))

IntegerOf(value) ==
    LET neg == Ch(value, 1) = "-"
        digits == IF Ch(value, 1) \in {"-", "+"} THEN From(value, 1) ELSE value
        n == ParseDigits(digits, 1, 0).val
    IN  IF neg THEN 0 - n ELSE n

parseYamlValue(value) ==
    IF IsQuoted(value) THEN Str(SliceInner(value))
    ELSE IF value \in {"true", "True", "TRUE"} THEN Bool(TRUE)
    ELSE IF value \in {"false", "False", "FALSE"} THEN Bool(FALSE)
    ELSE IF value \in {"null", "~", ""} THEN Null
    ELSE IF IsIntegerText(value) THEN Num(IntegerOf(value))
    ELSE Str(value)

\* line.search(/\S/): the index, from 0, of the first character that is no
\* white space
RECURSIVE SearchNonSpace(_, _)
SearchNonSpace(line, i) ==
    IF i > Len(line) THEN -1
    ELSE IF ~IsSpace(Ch(line, i)) THEN i - 1
    ELSE SearchNonSpace(line, i + 1)

\* The object a stack frame refers to is named by the keys that lead to it
\* from the result object.  obj[key] = value on the object at `path`:
RECURSIVE SetAt(_, _, _, _)
SetAt(root, path, key, value) ==
    IF path = <<>> THEN SetProperty(root, key, value)
    ELSE IF HasOwn(root, Head(path))
    THEN SetProperty(root, Head(path),
                     SetAt(GetProperty(root, Head(path)), Tail(path), key, value))
    ELSE root

\* The object at `path`, by own properties.
RECURSIVE GetAt(_, _)
GetAt(root, path) ==
    IF path = <<>> THEN root
    ELSE IF HasOwn(root, Head(path)) THEN GetAt(GetProperty(root, Head(path)), Tail(path))
    ELSE Undefined

\* { indent, obj, key }: key = "" stands for the missing key of the first frame.
Frame(indent, path, key) == [indent |-> indent, path |-> path, key |-> key]

\* while (stack.length > 1 && stack[stack.length - 1].indent >= indent) stack.pop()
RECURSIVE PopTo(_, _)
PopTo(stack, indent) ==
    IF Len(stack) > 1 /\ stack[Len(stack)].indent >= indent
    THEN PopTo(SubSeq(stack, 1, Len(stack) - 1), indent)
    ELSE stack

\* The array-item branch without the assignment of a fresh array
ArrayItemNoInit(st, indent, trimmedLine) ==
    LET value == Trim(From(trimmedLine, 2))
        stack == PopTo(st.stack, indent)
        parent == stack[Len(stack)]
    IN  IF parent.key = "" THEN [st EXCEPT !.stack = stack]
        ELSE LET obj == GetAt(st.result, parent.path)
                 held == GetProperty(obj, parent.key)
             IN  IF held.t # "arr" THEN [st EXCEPT !.stack = stack, !.threw = TRUE]
                 ELSE [st EXCEPT !.stack = stack,
                          !.result = SetAt(@, parent.path, parent.key,
                                           Arr(Append(held.items, parseYamlValue(value))))]

\* if (trimmedLine.startsWith("- ")) { ... continue; }
\* push on a value that is no array raises a TypeError: threw.
ArrayItem(st, indent, trimmedLine) ==
    LET value == Trim(From(trimmedLine, 2))
        stack == PopTo(st.stack, indent)
        parent == stack[Len(stack)]
    IN  IF parent.key = "" THEN [st EXCEPT !.stack = stack]
        ELSE LET obj == GetAt(st.result, parent.path)
                 inited == IF GetProperty(obj, parent.key).t # "arr"
                           THEN SetProperty(obj, parent.key, Arr(<<>>))
                           ELSE obj
                 held == GetProperty(inited, parent.key)
             IN  IF held.t # "arr" THEN [st EXCEPT !.stack = stack, !.threw = TRUE]
                 ELSE [st EXCEPT !.stack = stack,
                          !.result = SetAt(@, parent.path, parent.key,
                                           Arr(Append(held.items, parseYamlValue(value))))]

\* const colonIndex = trimmedLine.indexOf(":"); if (colonIndex > 0) { ... }
KeyValue(st, indent, trimmedLine) ==
    LET colonIndex == IndexOf(trimmedLine, ":") IN
    IF colonIndex <= 0 THEN st
    ELSE LET key == Trim(SubSeq(trimmedLine, 1, colonIndex))
             valueStr == Trim(From(trimmedLine, colonIndex + 1))
             stack == PopTo(st.stack, indent)
             parent == stack[Len(stack)]
         IN  IF valueStr \in {"", "|", ">"}
             THEN [st EXCEPT !.result = SetAt(@, parent.path, key, Obj(<<>>)),
                             !.stack = Append(stack, Frame(indent, Append(parent.path, key), key))]
             ELSE [st EXCEPT !.result = SetAt(@, parent.path, key, parseYamlValue(valueStr)),
                             !.stack = stack]

\* The body of the loop over the lines.
YamlLine(st, line) ==
    IF st.threw THEN st
    ELSE IF Trim(line) = "" \/ StartsWith(Trim(line), "#") THEN st
    ELSE IF StartsWith(Trim(line), "- ")
    THEN ArrayItem(st, SearchNonSpace(line, 1), Trim(line))
    ELSE KeyValue(st, SearchNonSpace(line, 1), Trim(line))

RECURSIVE YamlLines(_, _, _)
YamlLines(st, lines, i) ==
    IF i > Len(lines) THEN st ELSE YamlLines(YamlLine(st, lines[i]), lines, i + 1)

\* parseSimpleYaml with the flag of an uncaught exception.  currentArrayKey
\* is never assigned, so the branch that saves a pending array never runs.
ParseSimpleYamlRun(content) ==
    YamlLines([result |-> Obj(<<>>), stack |-> <<Frame(-1, <<>>, "")>>, threw |-> FALSE],
              SplitLines(content), 1)

parseSimpleYaml(content) == ParseSimpleYamlRun(content).result

\* ------------------------------------------------------------------------
\* YAML: formatYamlValue, stringifyYaml
\* ------------------------------------------------------------------------

\* value.replace(/"/g, '\\"')
EscapeQuotes(value) ==
    LET q[i \in 0..Len(value)] ==
            IF i = 0 THEN ""
            ELSE q[i - 1] \o (IF Ch(value, i) = "\"" THEN "\\\"" ELSE Ch(value, i))
    IN  q[Len(value)]

NeedsQuotes(value) ==
    \/ Includes(value, ":")
    \/ Includes(value, "#")
    \/ Includes(value, "\n")
    \/ StartsWith(value, " ")
    \/ EndsWith(value, " ")
    \/ value = ""
    \/ Ch(value, 1) \in {"{", "["}

FUNCTION_TEXT == "function Object() { [native code] }"

\* String(value) of a value that is no null, boolean, number or string
RECURSIVE StringOf(_)
StringOf(value) ==
    CASE value.t = "function" -> FUNCTION_TEXT
      [] value.t = "arr" ->
            Join([i \in 1..Len(value.items) |->
                    CASE value.items[i].t \in {"null", "undefined"} -> ""
                      [] value.items[i].t = "bool" ->
                            (IF value.items[i].b THEN "true" ELSE "false")
                      [] value.items[i].t = "num" -> ToDecimal(value.items[i].n)
                      [] value.items[i].t = "str" -> value.items[i].s
                      [] OTHER -> StringOf(value.items[i])], ",")
      [] OTHER -> "[object Object]"

formatYamlValue(value) ==
    CASE value.t \in {"null", "undefined"} -> "null"
      [] value.t = "bool" -> (IF value.b THEN "true" ELSE "false")
      [] value.t = "num" -> ToDecimal(value.n)
      [] value.t = "str" ->
            (IF NeedsQuotes(value.s) THEN "\"" \o EscapeQuotes(value.s) \o "\""
             ELSE value.s)
      [] OTHER -> StringOf(value)

\* "  ".repeat(indent)
RECURSIVE Spaces(_)
Spaces(indent) == IF indent = 0 THEN "" ELSE "  " \o Spaces(indent - 1)

\* The lines one item of a sequence gives.
ItemLines(item, spaces) ==
    IF item.t = "obj"
    THEN IF item.kv = <<>> THEN <<spaces \o "- {}">>
         ELSE [i \in 1..Len(item.kv) |->
                 spaces \o (IF i = 1 THEN "- " ELSE "  ")
                        \o item.kv[i].k \o ": " \o formatYamlValue(item.kv[i].v)]
    ELSE <<spaces \o "- " \o formatYamlValue(item)>>

RECURSIVE Flatten(_)
Flatten(seqs) == IF seqs = <<>> THEN <<>> ELSE Head(seqs) \o Flatten(Tail(seqs))

RECURSIVE stringifyYaml(_, _)
\* The lines one entry of a mapping gives.
EntryLines(key, value, indent) ==
    LET spaces == Spaces(indent) IN
    IF value.t = "arr"
    THEN IF value.items = <<>> THEN <<spaces \o key \o ": []">>
         ELSE <<spaces \o key \o ":", stringifyYaml(value, indent + 1)>>
    ELSE IF value.t = "obj"
    THEN LET nested == stringifyYaml(value, indent + 1)
         IN  IF Includes(nested, "\n") \/ Len(value.kv) > 0
             THEN <<spaces \o key \o ":", nested>>
             ELSE <<spaces \o key \o ": {}">>
    ELSE <<spaces \o key \o ": " \o formatYamlValue(value)>>

stringifyYaml(obj, indent) ==
    IF obj.t \in {"null", "undefined"} THEN "null"
    ELSE IF obj.t \notin {"obj", "arr"} THEN formatYamlValue(obj)
    ELSE IF obj.t = "arr"
    THEN IF obj.items = <<>> THEN "[]"
         ELSE Join(Flatten([i \in 1..Len(obj.items) |->
                              ItemLines(obj.items[i], Spaces(indent))]), "\n")
    ELSE Join(Flatten([i \in 1..Len(obj.kv) |->
                         EntryLines(obj.kv[i].k, obj.kv[i].v, indent)]), "\n")

\* ------------------------------------------------------------------------
\* YAML: deepMergePreserveExisting, mergeYaml
\* ------------------------------------------------------------------------

RECURSIVE deepMergePreserveExisting(_, _, _, _, _)
RECURSIVE MergeGeneratedKeys(_, _, _, _, _, _)

\* for (const key of Object.keys(generated)) { ... }
MergeGeneratedKeys(existingObj, generatedObj, path, at, i, st) ==
    IF i > Len(OwnKeys(generatedObj)) THEN st
    ELSE LET key == generatedObj.kv[i].k
             fullPath == FullPath(path, key)
             mine == GetProperty(existingObj, key)
             theirs == GetProperty(generatedObj, key)
         IN  MergeGeneratedKeys(existingObj, generatedObj, path, at, i + 1,
               IF ~HasProperty(existingObj, key)
               THEN [result |-> SetProperty(st.result, key, theirs),
                     prov |-> PushAdded(st.prov, fullPath, Append(at, key))]
               ELSE IF IsPlainObject(mine) /\ IsPlainObject(theirs)
               THEN LET sub == deepMergePreserveExisting(mine, theirs, fullPath,
                                                        Append(at, key), st.prov)
                    IN  [result |-> SetProperty(st.result, key, sub.result),
                         prov |-> sub.prov]
               ELSE [result |-> SetProperty(st.result, key, mine),
                     prov |-> PushPreserved(st.prov, fullPath, Append(at, key))])

\* for (const key of Object.keys(existing)) { if (!(key in generated)) ... }
RECURSIVE MarkRemainingKeys(_, _, _, _, _, _)
MarkRemainingKeys(existingObj, generatedObj, path, at, i, st) ==
    IF i > Len(OwnKeys(existingObj)) THEN st
    ELSE LET key == existingObj.kv[i].k IN
         MarkRemainingKeys(existingObj, generatedObj, path, at, i + 1,
            IF ~HasProperty(generatedObj, key)
            THEN [st EXCEPT !.prov = PushPreserved(@, FullPath(path, key), Append(at, key))]
            ELSE st)

\* result starts as the copy { ...existing }: the own enumerable properties,
\* of which Object.prototype has none.
deepMergePreserveExisting(existingObj, generatedObj, path, at, prov) ==
    MarkRemainingKeys(existingObj, generatedObj, path, at, 1,
        MergeGeneratedKeys(existingObj, generatedObj, path, at, 1,
                           [result |-> Obj(IF existingObj.t = "obj" THEN existingObj.kv
                                           ELSE <<>>),
                            prov |-> prov]))

\* [...new Set(list)]: the first occurrences, in order
RECURSIVE Unique(_)
Unique(list) ==
    IF list = <<>> THEN <<>>
    ELSE LET front == SubSeq(list, 1, Len(list) - 1)
             last == list[Len(list)]
         IN  IF last \in Range(front) THEN Unique(front) ELSE Append(Unique(front), last)

\* mergeYaml with its locals at the return: branch names the return
\* statement taken, threw an exception no handler catches.
MergeYamlRun(existingText, generatedText) ==
    LET existingParse == ParseSimpleYamlRun(existingText)
        generatedParse == ParseSimpleYamlRun(generatedText)
        base == [prov |-> NoProvenance, existingObj |-> existingParse.result,
                 generatedObj |-> generatedParse.result, merged |-> Undefined,
                 threw |-> FALSE]
    IN
    IF IsBlank(existingText)
    THEN LET keys == collectKeys(generatedParse.result, "", <<>>, NoKeys) IN
         [base EXCEPT !.prov.added = keys.paths, !.prov.addedAt = keys.at,
                      !.threw = generatedParse.threw]
           @@ [content |-> Trim(generatedText) \o "\n", branch |-> "emptyExisting"]
    ELSE IF IsBlank(generatedText)
    THEN LET keys == collectKeys(existingParse.result, "", <<>>, NoKeys) IN
         [base EXCEPT !.prov.preserved = keys.paths, !.prov.preservedAt = keys.at,
                      !.threw = existingParse.threw]
           @@ [content |-> Trim(existingText) \o "\n", branch |-> "emptyGenerated"]
    ELSE LET st == deepMergePreserveExisting(existingParse.result, generatedParse.result,
                                             "", <<>>, NoProvenance)
         IN  [base EXCEPT !.prov = [st.prov EXCEPT !.preserved = Unique(@),
                                                   !.added = Unique(@)],
                          !.merged = st.result,
                          !.threw = existingParse.threw \/ generatedParse.threw]
               @@ [content |-> stringifyYaml(st.result, 0) \o "\n", branch |-> "merged"]

YamlResultOf(run) ==
    [content |-> run.content, preserved |-> run.prov.preserved, added |-> run.prov.added]

YamlLocalsOf(run) ==
    [branch |-> run.branch, existingObj |-> run.existingObj,
     generatedObj |-> run.generatedObj, merged |-> run.merged, threw |-> run.threw,
     preservedAt |-> run.prov.preservedAt, addedAt |-> run.prov.addedAt]

mergeYaml(existingText, generatedText) == YamlResultOf(MergeYamlRun(existingText, generatedText))

\* ------------------------------------------------------------------------
\* State machine of a YAML file that is merged with a generated text and
\* then regenerated
\* ------------------------------------------------------------------------

\* The lines of an existing file: scalars, a nested mapping, a sequence.
YamlFileLines == {"a: 1", "b:", "  c: 2", "items:", "  - x", "  - y"}

ExampleExistingYaml == "a: 1\nb:\n  c: 2"
ExampleGeneratedYaml == "a: 99\nb:\n  c: 100\n  d: 3\ne: 5"

ExistingYamlDocs ==
    {Join(ls, "\n") : ls \in UNION {[1..n -> YamlFileLines] : n \in 0..MaxYamlLines}}
        \cup {ExampleExistingYaml}

\* The generated texts: empty, scalars and mappings against each kind of
\* existing value, sequences, a key every object inherits, the example.
GeneratedYamlDocs ==
    {"", "a: 9", "a:\n  c: 9", "b: 9", "b:\n  c: 8\n  d: 7", "e: 5",
     "items:\n  - x", "items:\n  - z\n  - x", "items: 9", "constructor: 4",
     "# only a comment", "- x\nno colon\n: v", "b:\n  c: 2\n    - x",
     ExampleGeneratedYaml}

InitYaml ==
    /\ existing \in ExistingYamlDocs
    /\ generated = ""
    /\ result = NoResult
    /\ locals = NoLocals
    /\ runs = 0

\* The first generation run over the file.
YamlMerge ==
    /\ runs = 0
    /\ \E g \in GeneratedYamlDocs :
         \E run \in {MergeYamlRun(existing, g)} :
             /\ generated' = g
             /\ result' = YamlResultOf(run)
             /\ locals' = YamlLocalsOf(run)
    /\ existing' = existing
    /\ runs' = 1

\* A later run: the file now holds the content of the previous run, the
\* generated text is the same.
YamlRegenerate ==
    /\ runs >= 1
    /\ runs < MaxRuns
    /\ \E run \in {MergeYamlRun(result.content, generated)} :
           /\ result' = YamlResultOf(run)
           /\ locals' = YamlLocalsOf(run)
    /\ existing' = result.content
    /\ generated' = generated
    /\ runs' = runs + 1

NextYaml == YamlMerge \/ YamlRegenerate

SpecYaml == InitYaml /\ [][NextYaml]_vars

\* ------------------------------------------------------------------------
\* State machine of one call of any of the three mergers on a file of any
\* content: the functions take two strings and nothing says what they hold
\* ------------------------------------------------------------------------

\* Files of every format, well formed and not.
AnyTexts ==
    {"", " \n", "x", "# A\ntext", "# A\n# A", "## a!\n\n# B",
     "{not json", "{\"a\":1}", "{\"a\":{\"b\":1}", "[1]", "null", "7",
     "{\"__proto__\": 1}", "{\"constructor\": {\"a\": 1}}",
     "a: 1", "- x", "  - x\nb:", "b:\n  - x\n  - y", "b:\n  c: 2\n    - x",
     "b: 1\n  - x", "b:\n  b: 1\n  - x", "no colon", ": v", "a: \"q",
     "constructor:\n  - x", "toString: 1\ntoString:\n  - x",
     ExampleExistingJson, ExampleExistingYaml}

InitAnyText ==
    /\ existing \in AnyTexts
    /\ generated = ""
    /\ result = NoResult
    /\ locals = NoLocals
    /\ runs = 0

NextAnyText == MarkdownMerge \/ JsonMerge \/ YamlMerge

SpecAnyText == InitAnyText /\ [][NextAnyText]_vars

\* ------------------------------------------------------------------------
\* State machine of the YAML conversions: a tree is written out by
\* stringifyYaml and the text is read back by parseSimpleYaml; the tree is
\* given, or is what parseSimpleYaml reads from a given document
\* ------------------------------------------------------------------------

YamlKeys == <<"a", "b", "items">>

\* Scalars of each type, the empty mapping and sequence, a sequence of
\* scalars, a nested mapping, a sequence in a nested mapping.
YamlValues ==
    {Str("x"), Num(1), Bool(TRUE), Null, Obj(<<>>), Arr(<<>>),
     Arr(<<Str("x"), Str("y")>>),
     Obj(<<[k |-> "c", v |-> Num(2)]>>),
     Obj(<<[k |-> "c", v |-> Arr(<<Str("x")>>)]>>)}

\* The mappings with at most `room` of the keys, in the order of YamlKeys.
RECURSIVE YamlTreesFrom(_, _)
YamlTreesFrom(i, room) ==
    IF i > Len(YamlKeys) \/ room = 0 THEN {<<>>}
    ELSE YamlTreesFrom(i + 1, room)
         \cup {<<[k |-> YamlKeys[i], v |-> v]>> \o rest :
                 v \in YamlValues, rest \in YamlTreesFrom(i + 1, room - 1)}

YamlTrees == {Obj(kv) : kv \in YamlTreesFrom(1, MaxYamlKeys)}

\* Documents with sequence items written `- key: value`.
MappingItemDocs ==
    {"items:\n  - name: x", "items:\n  - name: x\n    port: 1",
     "items:\n  - name: x\n    port: 1\n  - name: y\n    port: 2",
     "b:\n  - c: 2\n    a: 1\na: 1"}

YamlConversion(branch, from, tree, reparsed) ==
    [branch |-> branch, from |-> from, tree |-> tree, reparsed |-> reparsed]

InitYamlConversion ==
    /\ generated = ""
    /\ result = NoResult
    /\ runs = 0
    /\ \/ /\ existing = ""
          /\ \E t \in YamlTrees : locals = YamlConversion("tree", "tree", t, Undefined)
       \/ /\ existing \in ExistingYamlDocs \cup MappingItemDocs
          /\ locals = YamlConversion("document", "document", Undefined, Undefined)

\* parseSimpleYaml(d)
YamlParseDocument ==
    /\ locals.branch = "document"
    /\ locals' = [locals EXCEPT !.branch = "tree", !.tree = parseSimpleYaml(existing)]
    /\ runs' = runs + 1
    /\ UNCHANGED <<existing, generated, result>>

\* stringifyYaml(t)
YamlStringifyTree ==
    /\ locals.branch = "tree"
    /\ result' = [result EXCEPT !.content = stringifyYaml(locals.tree, 0)]
    /\ locals' = [locals EXCEPT !.branch = "text"]
    /\ runs' = runs + 1
    /\ UNCHANGED <<existing, generated>>

\* parseSimpleYaml(stringifyYaml(t))
YamlReparse ==
    /\ locals.branch = "text"
    /\ locals' = [locals EXCEPT !.branch = "reparsed",
                                !.reparsed = parseSimpleYaml(result.content)]
    /\ runs' = runs + 1
    /\ UNCHANGED <<existing, generated, result>>

NextYamlConversion == YamlParseDocument \/ YamlStringifyTree \/ YamlReparse

SpecYamlConversion == InitYamlConversion /\ [][NextYamlConversion]_vars

\* ------------------------------------------------------------------------
\* State machine of the YAML scalar conversions: a text is read by
\* parseYamlValue; a value is written by formatYamlValue and read back
\* ------------------------------------------------------------------------

\* Both quotes, the backslash, a digit, a sign, a letter, the colon.
ScalarChars == {"\"", "'", "\\", "1", "-", "a", ":"}

\* The words parseYamlValue compares with, other spellings of them, numbers
\* of two digits, texts formatYamlValue has to quote and escape, a quoted
\* text with an escaped quote.
ScalarWords ==
    {"true", "True", "TRUE", "tRuE", "false", "False", "FALSE", "fALSE",
     "null", "Null", "NULL", "~", "12", "-12", "+1", "a: \"b", " a", "#a", "{a",
     "\"a\\\"b\""}

RECURSIVE ScalarTextsOf(_)
ScalarTextsOf(n) ==
    IF n = 0 THEN {""}
    ELSE LET shorter == ScalarTextsOf(n - 1) IN
         shorter \cup {t \o c : t \in shorter, c \in ScalarChars}

ScalarTexts == ScalarTextsOf(MaxScalarLen) \cup ScalarWords

ScalarValues ==
    {Str(t) : t \in ScalarTexts} \cup {Num(n) : n \in {-12, -1, 0, 1, 12}}
        \cup {Bool(TRUE), Bool(FALSE), Null}

YamlScalar(branch, from, value, parsed) ==
    [branch |-> branch, from |-> from, value |-> value, parsed |-> parsed]

InitYamlScalar ==
    /\ generated = ""
    /\ result = NoResult
    /\ runs = 0
    /\ \/ /\ existing \in ScalarTexts
          /\ locals = YamlScalar("text", "text", Undefined, Undefined)
       \/ /\ existing = ""
          /\ \E v \in ScalarValues : locals = YamlScalar("value", "value", v, Undefined)

\* parseYamlValue(text)
YamlParseValue ==
    /\ locals.branch = "text"
    /\ locals' = [locals EXCEPT !.branch = "parsed", !.parsed = parseYamlValue(existing)]
    /\ runs' = runs + 1
    /\ UNCHANGED <<existing, generated, result>>

\* formatYamlValue(v)
YamlFormatValue ==
    /\ locals.branch = "value"
    /\ result' = [result EXCEPT !.content = formatYamlValue(locals.value)]
    /\ locals' = [locals EXCEPT !.branch = "formatted"]
    /\ runs' = runs + 1
    /\ UNCHANGED <<existing, generated>>

\* parseYamlValue(formatYamlValue(v))
YamlParseFormatted ==
    /\ locals.branch = "formatted"
    /\ locals' = [locals EXCEPT !.branch = "reparsed",
                                !.parsed = parseYamlValue(result.content)]
    /\ runs' = runs + 1
    /\ UNCHANGED <<existing, generated, result>>

NextYamlScalar == YamlParseValue \/ YamlFormatValue \/ YamlParseFormatted

SpecYamlScalar == InitYamlScalar /\ [][NextYamlScalar]_vars

\* ------------------------------------------------------------------------
\* analyzer.ts: the CI needs of a project directory
\* ------------------------------------------------------------------------

\* What a project directory holds is a set of facts: a file or directory of
\* the top level, a script or dependency of package.json, a line of
\* pyproject.toml or Cargo.toml, a Go test file somewhere in the tree.
FileFact(name) == [kind |-> "file", name |-> name, text |-> ""]
DirFact(name) == [kind |-> "dir", name |-> name, text |-> ""]
ScriptFact(name, text) == [kind |-> "script", name |-> name, text |-> text]
DepFact(name) == [kind |-> "dependency", name |-> name, text |-> ""]
DevDepFact(name) == [kind |-> "devDependency", name |-> name, text |-> ""]
PyprojectFact(text) == [kind |-> "pyproject", name |-> "", text |-> text]
CargoFact(text) == [kind |-> "cargo", name |-> "", text |-> text]
GoTestFact == [kind |-> "goTestFile", name |-> "main_test.go", text |-> ""]

NO_TEST_SPECIFIED == "echo \"Error: no test specified\" && exit 1"

LINTER_INDICATORS ==
    [eslint |-> [files |-> {".eslintrc", ".eslintrc.js", ".eslintrc.json", ".eslintrc.cjs",
                            ".eslintrc.mjs", "eslint.config.js", "eslint.config.mjs"},
                 deps |-> {"eslint"}],
     biome |-> [files |-> {"biome.json", "biome.jsonc"}, deps |-> {"@biomejs/biome"}],
     oxlint |-> [files |-> {".oxlintrc.json"}, deps |-> {"oxlint"}],
     ruff |-> [files |-> {"ruff.toml", ".ruff.toml"}, deps |-> {"ruff"}],
     pylint |-> [files |-> {".pylintrc", "pylintrc"}, deps |-> {"pylint"}],
     flake8 |-> [files |-> {".flake8", "setup.cfg"}, deps |-> {"flake8"}],
     clippy |-> [files |-> {}, deps |-> {}],
     golangci |-> [files |-> {".golangci.yml", ".golangci.yaml", ".golangci.toml",
                              ".golangci.json"},
                   deps |-> {}]]

TYPECHECKER_INDICATORS ==
    [typescript |-> [files |-> {"tsconfig.json", "tsconfig.*.json"}, deps |-> {"typescript"}],
     mypy |-> [files |-> {"mypy.ini", ".mypy.ini", "pyproject.toml"}, deps |-> {"mypy"}],
     pyright |-> [files |-> {"pyrightconfig.json"}, deps |-> {"pyright"}],
     pytype |-> [files |-> {}, deps |-> {"pytype"}]]

COVERAGE_INDICATORS ==
    [c8 |-> [files |-> {}, deps |-> {"c8"}],
     nyc |-> [files |-> {".nycrc", ".nycrc.json"}, deps |-> {"nyc"}],
     istanbul |-> [files |-> {}, deps |-> {"istanbul"}],
     coveragePy |-> [files |-> {".coveragerc", "pyproject.toml"}, deps |-> {"coverage"}],
     tarpaulin |-> [files |-> {}, deps |-> {}]]

\* The names of the entries of the top level: the manifest files are there
\* when the project holds a fact of their content.
FileNames(project) ==
    {f.name : f \in {g \in project.facts : g.kind \in {"file", "goTestFile"}}}
        \cup (IF \E f \in project.facts : f.kind \in {"script", "dependency", "devDependency"}
              THEN {"package.json"} ELSE {})
        \cup (IF \E f \in project.facts : f.kind = "pyproject" THEN {"pyproject.toml"} ELSE {})
        \cup (IF \E f \in project.facts : f.kind = "cargo" THEN {"Cargo.toml"} ELSE {})

fileExists(project, relativePath) == relativePath \in FileNames(project)

directoryExists(project, relativePath) == DirFact(relativePath) \in project.facts

\* loadConfigFiles: this.packageJson is an object when package.json exists
HasPackageJson(project) == fileExists(project, "package.json")

\* this.packageJson.scripts, as the set of its entries
Scripts(project) == {f \in project.facts : f.kind = "script"}

Dependencies(project) == {f.name : f \in {g \in project.facts : g.kind = "dependency"}}

DevDependencies(project) == {f.name : f \in {g \in project.facts : g.kind = "devDependency"}}

\* this.pyprojectToml: the lines of the file joined, Null without the file
PyprojectLines(project) == {f.text : f \in {g \in project.facts : g.kind = "pyproject"}}

CargoLines(project) == {f.text : f \in {g \in project.facts : g.kind = "cargo"}}

HasPyproject(project) == fileExists(project, "pyproject.toml")

\* this.pyprojectToml?.includes(text)
PyprojectIncludes(project, text) ==
    HasPyproject(project) /\ \E line \in PyprojectLines(project) : Includes(line, text)

\* this.cargoToml?.includes(text)
CargoIncludes(project, text) ==
    fileExists(project, "Cargo.toml") /\ \E line \in CargoLines(project) : Includes(line, text)

hasDependency(project, deps) ==
    HasPackageJson(project)
        /\ \E dep \in deps : dep \in Dependencies(project) \cup DevDependencies(project)

\* files.some(f => /^tsconfig\..*\.json$/.test(f))
MatchesTsconfigGlob(name) ==
    StartsWith(name, "tsconfig.") /\ EndsWith(name, ".json")
        /\ Len(name) >= Len("tsconfig.") + Len(".json")

hasFilesMatching(project, pattern) ==
    Includes(pattern, "**/*_test.go") /\ GoTestFact \in project.facts

\* One round of the loop of detectLinters: the linter is detected.
LinterDetected(project, indicators) ==
    \/ \E file \in indicators.files : fileExists(project, file)
    \/ project.type = "nodejs" /\ HasPackageJson(project)
          /\ hasDependency(project, indicators.deps)
    \/ project.type = "python" /\ HasPyproject(project)
          /\ \E dep \in indicators.deps : PyprojectIncludes(project, dep)

\* The linters detected, as a set (the code removes the duplicates).
detectLinters(project) ==
    {linter \in DOMAIN LINTER_INDICATORS : LinterDetected(project, LINTER_INDICATORS[linter])}
        \cup (IF project.type = "rust" /\ fileExists(project, "Cargo.toml")
              THEN {"clippy"} ELSE {})
        \cup (IF project.type = "go"
                   /\ \E file \in LINTER_INDICATORS.golangci.files : fileExists(project, file)
              THEN {"golangci"} ELSE {})

\* The loop over indicators.files of detectTypeCheckers, which stops at the
\* first file that exists: the checker is detected by a file.
RECURSIVE CheckerFileLoop(_, _, _, _)
CheckerFileLoop(project, checker, files, i) ==
    IF i > Len(files) THEN FALSE
    ELSE IF Includes(files[i], "*")
    THEN IF \E f \in FileNames(project) \cup {d.name : d \in {g \in project.facts : g.kind = "dir"}} :
               MatchesTsconfigGlob(f)
         THEN TRUE
         ELSE CheckerFileLoop(project, checker, files, i + 1)
    ELSE IF fileExists(project, files[i])
    THEN IF checker = "mypy" /\ files[i] = "pyproject.toml"
         THEN PyprojectIncludes(project, "[tool.mypy]")
         ELSE TRUE
    ELSE CheckerFileLoop(project, checker, files, i + 1)

\* indicators.files in the order of the source
CheckerFiles ==
    [typescript |-> <<"tsconfig.json", "tsconfig.*.json">>,
     mypy |-> <<"mypy.ini", ".mypy.ini", "pyproject.toml">>,
     pyright |-> <<"pyrightconfig.json">>,
     pytype |-> <<>>]

TypeCheckerDetected(project, checker) ==
    \/ CheckerFileLoop(project, checker, CheckerFiles[checker], 1)
    \/ project.type = "nodejs" /\ HasPackageJson(project)
          /\ hasDependency(project, TYPECHECKER_INDICATORS[checker].deps)
    \/ project.type = "python" /\ HasPyproject(project)
          /\ \E dep \in TYPECHECKER_INDICATORS[checker].deps : PyprojectIncludes(project, dep)

detectTypeCheckers(project) ==
    {checker \in DOMAIN TYPECHECKER_INDICATORS : TypeCheckerDetected(project, checker)}

detectBuildNeed(project) ==
    \/ fileExists(project, "tsconfig.json")
    \/ HasPackageJson(project) /\ \E sc \in Scripts(project) : sc.name = "build" /\ sc.text # ""
    \/ project.type \in {"rust", "go"}
    \/ project.type = "java"
    \/ \E file \in {"webpack.config.js", "vite.config.ts", "vite.config.js", "rollup.config.js",
                    "rollup.config.mjs", "esbuild.config.js"} : fileExists(project, file)

detectTestNeed(project) ==
    IF \E dir \in {"test", "tests", "__tests__", "spec", "specs"} : directoryExists(project, dir)
    THEN TRUE
    ELSE IF HasPackageJson(project)
            /\ \E sc \in Scripts(project) :
                   sc.name = "test" /\ sc.text # "" /\ sc.text # NO_TEST_SPECIFIED
    THEN TRUE
    ELSE IF hasDependency(project, {"jest", "vitest", "mocha", "ava", "tap", "playwright",
                                    "cypress"})
    THEN TRUE
    ELSE IF project.type = "python" /\ PyprojectIncludes(project, "pytest") THEN TRUE
    ELSE IF project.type = "rust" THEN TRUE
    ELSE IF project.type = "go" THEN hasFilesMatching(project, "**/*_test.go")
    ELSE FALSE

detectSecurityNeed(project) ==
    \/ HasPackageJson(project) /\ Dependencies(project) # {}
    \/ PyprojectIncludes(project, "[project.dependencies]")
    \/ CargoIncludes(project, "[dependencies]")
    \/ project.type = "go" /\ fileExists(project, "go.mod")

detectCoverageNeed(project) ==
    \/ \E tool \in DOMAIN COVERAGE_INDICATORS :
          \/ \E file \in COVERAGE_INDICATORS[tool].files : fileExists(project, file)
          \/ project.type = "nodejs" /\ hasDependency(project, COVERAGE_INDICATORS[tool].deps)
          \/ project.type = "python" /\ HasPyproject(project)
                /\ \E dep \in COVERAGE_INDICATORS[tool].deps : PyprojectIncludes(project, dep)
    \/ HasPackageJson(project) /\ \E sc \in Scripts(project) : Includes(sc.text, "coverage")

detectCINeeds(project) ==
    [build |-> detectBuildNeed(project),
     test |-> detectTestNeed(project),
     lint |-> detectLinters(project) # {},
     typecheck |-> detectTypeCheckers(project) # {},
     security |-> detectSecurityNeed(project),
     coverage |-> detectCoverageNeed(project)]

\* return ciNeeds.build || ciNeeds.test || ciNeeds.lint || ciNeeds.typecheck
projectNeedsCI(ciNeeds) ==
    ciNeeds.build \/ ciNeeds.test \/ ciNeeds.lint \/ ciNeeds.typecheck

\* ------------------------------------------------------------------------
\* State machine of projectNeedsCI: a project directory is analyzed and the
\* question is answered
\* ------------------------------------------------------------------------

\* projectInfo.type, as the project detection reports it
ProjectTypes == {"nodejs", "python", "rust", "go", "java", "unknown"}

ProjectFacts ==
    {FileFact(name) : name \in {"tsconfig.json", "tsconfig.build.json", "vite.config.ts",
                                ".eslintrc", "setup.cfg", ".nycrc", "go.mod", "package.json",
                                "pyproject.toml", "Cargo.toml"}}
        \cup {DirFact("tests"), GoTestFact,
              ScriptFact("build", "tsc"), ScriptFact("test", NO_TEST_SPECIFIED),
              ScriptFact("test", "jest"), ScriptFact("cov", "jest --coverage"),
              DepFact("lodash"), DevDepFact("jest"), DevDepFact("eslint"),
              DevDepFact("typescript"), DevDepFact("nyc"),
              PyprojectFact("[project.dependencies]"), PyprojectFact("pytest"),
              PyprojectFact("[tool.mypy]"), CargoFact("[dependencies]")}

\* package.json has one value per script name.
OneTextPerScript(facts) ==
    \A f \in facts, g \in facts :
        (f.kind = "script" /\ g.kind = "script" /\ f.name = g.name) => f = g

\* The sets of at most n facts.
RECURSIVE FactSets(_)
FactSets(n) ==
    IF n = 0 THEN {{}}
    ELSE LET smaller == FactSets(n - 1) IN
         smaller \cup {fs \cup {f} : fs \in smaller, f \in ProjectFacts}

ProjectDirs ==
    {[type |-> type, facts |-> facts] :
        type \in ProjectTypes,
        facts \in {fs \in FactSets(MaxProjectFacts) : OneTextPerScript(fs)}}

InitProject ==
    /\ existing = ""
    /\ generated = ""
    /\ result = NoResult
    /\ runs = 0
    /\ \E project \in ProjectDirs :
           locals = [branch |-> "project", projectDir |-> project]

\* projectNeedsCI(projectDir): analyzeProjectForSetup, then the answer
ProjectNeedsCI ==
    /\ locals.branch = "project"
    /\ \E ciNeeds \in {detectCINeeds(locals.projectDir)} :
           locals' = [branch |-> "answered", projectDir |-> locals.projectDir,
                      ciNeeds |-> ciNeeds, needsCI |-> projectNeedsCI(ciNeeds)]
    /\ runs' = runs + 1
    /\ UNCHANGED <<existing, generated, result>>

NextProject == ProjectNeedsCI

SpecProject == InitProject /\ [][NextProject]_vars

\* ------------------------------------------------------------------------
\* State machine of the two tree mergers: deepMergeJson and
\* deepMergePreserveExisting merge the same pair of mappings, and each
\* merges its result with further generated mappings
\* ------------------------------------------------------------------------

\* The generated mappings of the later merges: empty, a scalar, a mapping
\* and a sequence against the keys of the tree, a new key.
FurtherGenerated ==
    {Obj(<<>>),
     Obj(<<[k |-> "a", v |-> Num(3)]>>),
     Obj(<<[k |-> "a", v |-> Obj(<<[k |-> "b", v |-> Num(3)]>>)]>>),
     Obj(<<[k |-> "b", v |-> Arr(<<Num(3)>>)], [k |-> "n", v |-> Num(3)]>>),
     Obj(<<[k |-> "__proto__", v |-> Num(3)]>>)}

\* The mappings the mergers are called with.  A mapping under the key
\* __proto__ would become the prototype of a merged tree; such trees are
\* left out.
TreeInputs(n) ==
    {o \in JsonObjects(n) : ~(HasOwn(o, "__proto__") /\ IsPlainObject(GetProperty(o, "__proto__")))}

\* What one merger returns and records.
TreeMergeOf(run) ==
    [result |-> run.result, preserved |-> run.prov.preserved, added |-> run.prov.added]

InitTreeMerge ==
    /\ existing = ""
    /\ generated = ""
    /\ result = NoResult
    /\ runs = 0
    /\ \E e \in TreeInputs(1) :
           locals = [branch |-> "trees", original |-> e, jsonIn |-> e, yamlIn |-> e,
                     generatedObj |-> Undefined, jsonOut |-> Undefined,
                     yamlOut |-> Undefined]

\* deepMergeJson(existing, generated, "", preserved, added) and
\* deepMergePreserveExisting(existing, generated, "", preserved, added)
TreeMerge ==
    /\ runs = 0
    /\ \E g \in TreeInputs(2) :
           locals' = [locals EXCEPT
                        !.branch = "merged",
                        !.generatedObj = g,
                        !.jsonOut = TreeMergeOf(deepMergeJson(locals.jsonIn, g, "", <<>>,
                                                              NoProvenance)),
                        !.yamlOut = TreeMergeOf(deepMergePreserveExisting(
                                                    locals.yamlIn, g, "", <<>>, NoProvenance))]
    /\ runs' = 1
    /\ UNCHANGED <<existing, generated, result>>

\* A further merge: what each merger returned is its existing tree now.
TreeMergeAgain ==
    /\ runs >= 1
    /\ runs < MaxRuns
    /\ \E g \in FurtherGenerated :
           locals' = [locals EXCEPT
                        !.jsonIn = locals.jsonOut.result,
                        !.yamlIn = locals.yamlOut.result,
                        !.generatedObj = g,
                        !.jsonOut = TreeMergeOf(deepMergeJson(locals.jsonOut.result, g, "",
                                                              <<>>, NoProvenance)),
                        !.yamlOut = TreeMergeOf(deepMergePreserveExisting(
                                                    locals.yamlOut.result, g, "", <<>>,
                                                    NoProvenance))]
    /\ runs' = runs + 1
    /\ UNCHANGED <<existing, generated, result>>

NextTreeMerge == TreeMerge \/ TreeMergeAgain

SpecTreeMerge == InitTreeMerge /\ [][NextTreeMerge]_vars

\* ------------------------------------------------------------------------
\* Platforms: PLATFORM_CONFIGS, detectPlatform, getPlatformConfig,
\* getPlatformIssueTemplates
\* ------------------------------------------------------------------------

Platforms == {"github", "gitlab", "gitea", "bitbucket", "azure", "unknown"}

PLATFORM_CONFIGS ==
    [github |->
        [name |-> "GitHub", ciConfigPath |-> ".github/workflows",
         issueTemplatePath |-> ".github/ISSUE_TEMPLATE", hasActions |-> TRUE,
         defaultBranch |-> "main", mergeRequestTerm |-> "pull request"],
     gitlab |->
        [name |-> "GitLab", ciConfigPath |-> ".gitlab-ci.yml",
         issueTemplatePath |-> ".gitlab/issue_templates", hasActions |-> FALSE,
         defaultBranch |-> "main", mergeRequestTerm |-> "merge request"],
     gitea |->
        [name |-> "Gitea", ciConfigPath |-> ".gitea/workflows",
         issueTemplatePath |-> ".gitea/issue_template", hasActions |-> TRUE,
         defaultBranch |-> "main", mergeRequestTerm |-> "pull request"],
     bitbucket |->
        [name |-> "Bitbucket", ciConfigPath |-> "bitbucket-pipelines.yml",
         issueTemplatePath |-> ".bitbucket/issue_templates", hasActions |-> FALSE,
         defaultBranch |-> "main", mergeRequestTerm |-> "pull request"],
     azure |->
        [name |-> "Azure DevOps", ciConfigPath |-> "azure-pipelines.yml",
         issueTemplatePath |-> ".azuredevops/issue_templates", hasActions |-> FALSE,
         defaultBranch |-> "main", mergeRequestTerm |-> "pull request"],
     unknown |->
        [name |-> "Unknown", ciConfigPath |-> ".ci",
         issueTemplatePath |-> ".issue_templates", hasActions |-> FALSE,
         defaultBranch |-> "main", mergeRequestTerm |-> "pull request"]]

\* [a-z] under the flag i, on a lowercased text
IsLowerLetter(c) == c \in LowerAlnum /\ ~IsDigit(c)

\* The index after the longest run of letters that starts at index i,
\* indices counted from 1.
RECURSIVE AfterLetters(_, _)
AfterLetters(s, i) ==
    IF i <= Len(s) /\ IsLowerLetter(Ch(s, i)) THEN AfterLetters(s, i + 1) ELSE i

\* /host[:/]/i.test(url)
TestHostSep(url, host) ==
    Includes(ToLowerCase(url), host \o ":") \/ Includes(ToLowerCase(url), host \o "/")

\* /name\.[a-z]+\.[a-z]+[:/]/i.test(url): the letters are neither a dot nor
\* a separator, so each run of letters is the longest one.
TestSelfHosted(url, name) ==
    LET s == ToLowerCase(url)
        prefix == name \o "."
    IN  \E i \in 1..(Len(s) - Len(prefix) + 1) :
            /\ SubSeq(s, i, i + Len(prefix) - 1) = prefix
            /\ LET first == i + Len(prefix)
                   dot == AfterLetters(s, first)
                   second == dot + 1
                   sep == AfterLetters(s, second)
               IN  /\ dot > first
                   /\ dot <= Len(s) /\ Ch(s, dot) = "."
                   /\ sep > second
                   /\ sep <= Len(s) /\ Ch(s, sep) \in {":", "/"}

\* /azure\.com.*\/_git\//i.test(url)
TestAzureGit(url) ==
    LET s == ToLowerCase(url)
    IN  \E i \in 1..(Len(s) - 8) :
            /\ SubSeq(s, i, i + 8) = "azure.com"
            /\ LET rest == From(s, i + 8)
                   at == IndexOf(rest, "/_git/")
               IN  /\ at >= 0
                   /\ \A j \in 1..at : Ch(rest, j) \notin LineTerminators

\* The platforms in the order they are tried, each with the test of its
\* patterns.
PLATFORM_PATTERNS(url) ==
    <<[platform |-> "github",
       matches |-> TestHostSep(url, "github.com") \/ TestHostSep(url, "github.io")],
      [platform |-> "gitlab",
       matches |-> TestHostSep(url, "gitlab.com") \/ TestSelfHosted(url, "gitlab")],
      [platform |-> "gitea",
       matches |-> \/ Includes(ToLowerCase(url), "gitea.")
                   \/ TestHostSep(url, "codeberg.org")
                   \/ Includes(ToLowerCase(url), "forgejo.")
                   \/ Includes(ToLowerCase(url), "tea.")],
      [platform |-> "bitbucket",
       matches |-> TestHostSep(url, "bitbucket.org") \/ TestSelfHosted(url, "bitbucket")],
      [platform |-> "azure",
       matches |-> \/ TestHostSep(url, "dev.azure.com")
                   \/ TestHostSep(url, "visualstudio.com")
                   \/ TestAzureGit(url)]>>

\* detectPlatform: stdout is what `git remote get-url origin` printed,
\* commandFails tells that the command was rejected.
detectPlatform(stdout, commandFails) ==
    IF commandFails THEN "unknown"
    ELSE LET remoteUrl == Trim(stdout)
             tried == PLATFORM_PATTERNS(remoteUrl)
             hits == {i \in 1..Len(tried) : tried[i].matches}
         IN  IF remoteUrl = "" THEN "unknown"
             ELSE IF hits # {} THEN tried[Min(hits)].platform
             ELSE "unknown"

getPlatformConfig(platform) == PLATFORM_CONFIGS[platform]

\* The templates of one platform: the file names in the order of the object
\* literal, each with the first line of its content.
Template(name, firstLine) == [name |-> name, firstLine |-> firstLine]

getGitHubIssueTemplates ==
    <<Template(".github/ISSUE_TEMPLATE/bug.yml", "name: Bug Report"),
      Template(".github/ISSUE_TEMPLATE/feature.yml", "name: Feature Request"),
      Template(".github/ISSUE_TEMPLATE/config.yml", "blank_issues_enabled: false")>>

getGitLabIssueTemplates ==
    <<Template(".gitlab/issue_templates/Bug.md", "## Summary"),
      Template(".gitlab/issue_templates/Feature.md", "## Problem Statement"),
      Template(".gitlab/issue_templates/Default.md", "## Description")>>

getGiteaIssueTemplates ==
    <<Template(".gitea/issue_template/bug.md", "---"),
      Template(".gitea/issue_template/feature.md", "---")>>

getBitbucketIssueTemplates ==
    <<Template(".bitbucket/issue_templates/bug.md", "# Bug Report"),
      Template(".bitbucket/issue_templates/feature.md", "# Feature Request")>>

getAzureWorkItemTemplates ==
    <<Template(".azuredevops/work_item_templates/bug.md", "# Bug Report"),
      Template(".azuredevops/work_item_templates/user_story.md", "# User Story"),
      Template(".azuredevops/work_item_templates/task.md", "# Task")>>

getPlatformIssueTemplates(platform) ==
    CASE platform = "github" -> getGitHubIssueTemplates
      [] platform = "gitlab" -> getGitLabIssueTemplates
      [] platform = "gitea" -> getGiteaIssueTemplates
      [] platform = "bitbucket" -> getBitbucketIssueTemplates
      [] platform = "azure" -> getAzureWorkItemTemplates
      [] OTHER -> getGitHubIssueTemplates

\* ------------------------------------------------------------------------
\* Platforms: the state machine.  The platform of a project directory is
\* detected from its remote, then its configuration and its issue
\* templates are fetched
\* ------------------------------------------------------------------------

\* The hosts of the remotes: the hosted services, self-hosted instances
\* with one and with two domain labels after the product name, and hosts of
\* no known platform.
RemoteHosts ==
    {"github.com", "GitHub.com", "pages.github.io", "gitlab.com", "gitlab.example.org",
     "gitlab.corp", "gitea.example.com", "codeberg.org", "forgejo.dev",
     "tea.example.com", "bitbucket.org", "bitbucket.corp.net", "dev.azure.com",
     "org.visualstudio.com", "tfs.azure.com", "example.com"}

\* What `git remote get-url origin` prints: nothing, white space, and each
\* host in the ssh, the https and the Azure repository form.
RemoteOutputs ==
    {"", " \n"}
        \cup {"git@" \o h \o ":org/repo.git\n" : h \in RemoteHosts}
        \cup {"https://" \o h \o "/org/repo.git\n" : h \in RemoteHosts}
        \cup {"https://" \o h \o "/org/proj/_git/repo\n" : h \in {"tfs.azure.com", "example.com"}}

InitPlatform ==
    /\ existing \in RemoteOutputs
    /\ generated = ""
    /\ result = NoResult
    /\ runs = 0
    /\ \E fails \in BOOLEAN :
           locals = [branch |-> "remote", commandFails |-> fails, platform |-> "",
                     config |-> Undefined, templates |-> <<>>]

\* detectPlatform(projectDir)
DetectPlatform ==
    /\ locals.branch = "remote"
    /\ locals' = [locals EXCEPT !.branch = "detected",
                                !.platform = detectPlatform(existing, locals.commandFails)]
    /\ UNCHANGED <<existing, generated, result, runs>>

\* getPlatformConfig(platform), as detectPlatformWithConfig calls it
GetPlatformConfig ==
    /\ locals.branch = "detected"
    /\ locals' = [locals EXCEPT !.branch = "configured",
                                !.config = getPlatformConfig(locals.platform)]
    /\ UNCHANGED <<existing, generated, result, runs>>

\* getPlatformIssueTemplates(platform)
GetPlatformIssueTemplates ==
    /\ locals.branch = "configured"
    /\ locals' = [locals EXCEPT !.branch = "templates",
                                !.templates = getPlatformIssueTemplates(locals.platform)]
    /\ UNCHANGED <<existing, generated, result, runs>>

NextPlatform == DetectPlatform \/ GetPlatformConfig \/ GetPlatformIssueTemplates

SpecPlatform == InitPlatform /\ [][NextPlatform]_vars

\* ------------------------------------------------------------------------
\* Markdown: properties
\* ------------------------------------------------------------------------

\* The sections of the two inputs of the last merge.
ExistingSections == parseMarkdownSections(existing)
GeneratedSections == parseMarkdownSections(generated)

\* The last merge took the path on which both inputs are non-blank.
MergedBoth == runs >= 1 /\ locals.branch = "merged"

SectionKey(section) == normalizeHeader(section.header)
\* The preamble is the implicit section before the first header: it has no
\* header line.
IsPreamble(section) == section.level = 0

\* The indexes of the existing sections whose key is `key`.
Matching(sections, key) == {j \in 1..Len(sections) : SectionKey(sections[j]) = key}

\* The existing sections no generated section matched, in existing order.
Leftover(es, gs) ==
    LET genKeys == {SectionKey(gs[i]) : i \in 1..Len(gs)}
    IN  SelectSeq(es, LAMBDA sec : SectionKey(sec) \notin genKeys)

\* The headers of the sections other than the preamble, in document order.
TitledHeaders(sections) ==
    LET titled == SelectSeq(sections, LAMBDA sec : ~IsPreamble(sec))
    IN  [i \in 1..Len(titled) |-> titled[i].header]

\* Position i of the merged sections holds the section the rule for generated
\* section i chooses.
GeneratedSlotOk(es, gs, i) ==
    LET m == Matching(es, SectionKey(gs[i]))
    IN  /\ i <= Len(locals.mergedSections)
        /\ IF m = {} THEN locals.mergedSections[i] = gs[i].fullText
           ELSE \E j \in m : locals.mergedSections[i] = es[j].fullText

\* C5: with both inputs non-blank the merged sections are one per
\* generated section in generated order (the matching existing section, else
\* the generated one) followed by the existing sections that matched no
\* generated section, in existing order.
C5_HeaderOrderLaw ==
    MergedBoth =>
        LET es == ExistingSections
            gs == GeneratedSections
            rest == Leftover(es, gs)
        IN  /\ Len(locals.mergedSections) = Len(gs) + Len(rest)
            /\ \A i \in 1..Len(gs) : GeneratedSlotOk(es, gs, i)
            /\ \A i \in 1..Len(rest) :
                 locals.mergedSections[Len(gs) + i] = rest[i].fullText

\* C6: every generated section with a matching existing section
\* emits the existing text and records the existing header in preserved, every
\* other one emits the generated text and records its header in added, and the
\* preamble is never recorded; the concrete scenario gives preserved =
\* [Title, Custom] and added = [New Section].
C6_MatchRule ==
    /\ MergedBoth =>
        LET es == ExistingSections
            gs == GeneratedSections
        IN  \A i \in 1..Len(gs) :
              LET m == Matching(es, SectionKey(gs[i]))
              IN  /\ i <= Len(locals.mergedSections)
                  /\ IF m = {}
                     THEN /\ locals.mergedSections[i] = gs[i].fullText
                          /\ IF IsPreamble(gs[i])
                             THEN gs[i].header \notin Range(result.added)
                             ELSE gs[i].header \in Range(result.added)
                     ELSE \E j \in m :
                          /\ locals.mergedSections[i] = es[j].fullText
                          /\ IF IsPreamble(es[j])
                             THEN es[j].header \notin Range(result.preserved)
                             ELSE es[j].header \in Range(result.preserved)
    /\ (runs = 1 /\ existing = ScenarioExistingMd /\ generated = ScenarioGeneratedMd) =>
        /\ result.preserved = <<"Title", "Custom">>
        /\ result.added = <<"New Section">>

\* C7: every existing section whose key no generated section
\* marked used, the preamble included, is appended after the generated-order
\* sections in existing order, and is recorded in preserved unless it is the
\* preamble.
C7_CustomSectionsSurvive ==
    MergedBoth =>
        LET es == ExistingSections
            gs == GeneratedSections
            rest == Leftover(es, gs)
        IN  /\ SubSeq(locals.mergedSections, Len(gs) + 1, Len(locals.mergedSections))
                 = [i \in 1..Len(rest) |-> rest[i].fullText]
            /\ \A i \in 1..Len(rest) :
                 ~IsPreamble(rest[i]) => rest[i].header \in Range(result.preserved)

\* C8: merging a document with itself returns it, up to the
\* white space at its ends, with every non-preamble header in preserved.
C8_SelfMergeIdempotent ==
    (runs >= 1 /\ existing = generated) =>
        /\ Trim(result.content) = Trim(existing)
        /\ Range(TitledHeaders(ExistingSections)) \subseteq Range(result.preserved)

\* C9: an empty existing text returns the generated text, nothing
\* preserved and every non-preamble header of it added, in order; an empty
\* generated text returns the existing text, nothing added and every
\* non-preamble header of it preserved, in order.
C9_EmptySidePassthrough ==
    /\ (runs >= 1 /\ existing = "") =>
        /\ result.content = generated
        /\ result.preserved = <<>>
        /\ result.added = TitledHeaders(GeneratedSections)
    /\ (runs >= 1 /\ generated = "") =>
        /\ result.content = existing
        /\ result.added = <<>>
        /\ result.preserved = TitledHeaders(ExistingSections)

\* ------------------------------------------------------------------------
\* JSON: properties
\* ------------------------------------------------------------------------

ExistingObj == locals.existingParse.val
GeneratedObj == locals.generatedParse.val
MergedObj == locals.merged

\* The run parsed two mappings and merged them.
MergedJson == runs >= 1 /\ locals.branch = "merged"

IsMapping(v) == v.t = "obj"

\* The value under a sequence of keys of the document, undefined where the
\* document has no such key.
RECURSIVE ValueAt(_, _)
ValueAt(v, at) ==
    IF at = <<>> THEN v
    ELSE IF HasOwn(v, Head(at)) THEN ValueAt(GetProperty(v, Head(at)), Tail(at))
    ELSE Undefined

\* The key sequences of a document, at every depth.
RECURSIVE KeyPaths(_)
KeyPaths(v) ==
    IF ~IsMapping(v) THEN {}
    ELSE UNION {{<<p.k>>} \cup {<<p.k>> \o rest : rest \in KeyPaths(p.v)} :
                  p \in Range(v.kv)}

Front(at) == SubSeq(at, 1, Len(at) - 1)
Last(at) == at[Len(at)]
IsProperPrefix(at, longer) == Len(at) < Len(longer) /\ SubSeq(longer, 1, Len(at)) = at

\* The merge reaches a key when every key above it holds a mapping on both
\* sides.
Reached(at) ==
    \A n \in 1..(Len(at) - 1) :
        /\ IsMapping(ValueAt(ExistingObj, SubSeq(at, 1, n)))
        /\ IsMapping(ValueAt(GeneratedObj, SubSeq(at, 1, n)))

BothMappings(at) ==
    IsMapping(ValueAt(ExistingObj, at)) /\ IsMapping(ValueAt(GeneratedObj, at))

DottedPath(at) == Join(at, ".")

RecordedPreserved(at) ==
    \E i \in DOMAIN locals.preservedAt :
        locals.preservedAt[i] = at /\ result.preserved[i] = DottedPath(at)

RecordedAdded(at) ==
    \E i \in DOMAIN locals.addedAt :
        locals.addedAt[i] = at /\ result.added[i] = DottedPath(at)

RecordedAt == Range(locals.preservedAt) \cup Range(locals.addedAt)

NothingRecordedBelow(at) == \A r \in RecordedAt : ~IsProperPrefix(at, r)

\* C1: a key the merge reaches that both documents have, with values
\* that are not both mappings, has the existing value in the merged
\* document, its dotted path is in preserved, and nothing below it is
\* recorded (the generated value is discarded without recursion).
C1_ExistingWins ==
    MergedJson =>
        \A at \in KeyPaths(ExistingObj) \cap KeyPaths(GeneratedObj) :
            (Reached(at) /\ ~BothMappings(at)) =>
                /\ ValueAt(MergedObj, at) = ValueAt(ExistingObj, at)
                /\ RecordedPreserved(at)
                /\ NothingRecordedBelow(at)

\* C2: every top-level key of the parsed existing document is a key of
\* the document the merge returns.
C2_NoKeyLoss ==
    (runs >= 1 /\ locals.existingParse.ok /\ IsMapping(ExistingObj)) =>
        LET out == JsonParse(result.content) IN
        /\ out.ok
        /\ \A key \in Range(OwnKeys(ExistingObj)) : HasOwn(out.val, key)

\* C3: a key the merge reaches that only the generated document has is
\* in the merged document with the generated value, its dotted path is in
\* added, and no path below it is recorded in added or preserved.
C3_GeneratedOnlyAdded ==
    MergedJson =>
        \A at \in KeyPaths(GeneratedObj) :
            (Reached(at) /\ ~HasOwn(ValueAt(ExistingObj, Front(at)), Last(at))) =>
                /\ ValueAt(MergedObj, at) = ValueAt(GeneratedObj, at)
                /\ RecordedAdded(at)
                /\ NothingRecordedBelow(at)

ExampleMergedJson ==
    "{\n  \"a\": 1,\n  \"b\": {\n    \"c\": 2,\n    \"d\": 3\n  },\n  \"e\": 5\n}\n"

\* C4: for a key the merge reaches whose values are mappings on both
\* sides, nothing is recorded for the key itself, and the children are
\* merged under the key's dotted path: every push below it carries the
\* dotted path of its keys, and every child of the existing mapping that is
\* no mapping is recorded in preserved under that path.  The documented
\* example gives {a:1, b:{c:2, d:3}, e:5} with "a" and "b.c" preserved and
\* "b.d" and "e" added.
C4_BothMappingsRecurse ==
    /\ MergedJson =>
         /\ \A i \in DOMAIN locals.preservedAt :
                result.preserved[i] = DottedPath(locals.preservedAt[i])
         /\ \A i \in DOMAIN locals.addedAt :
                result.added[i] = DottedPath(locals.addedAt[i])
         /\ \A at \in KeyPaths(ExistingObj) \cap KeyPaths(GeneratedObj) :
              (Reached(at) /\ BothMappings(at)) =>
                 /\ at \notin RecordedAt
                 /\ \A key \in Range(OwnKeys(ValueAt(ExistingObj, at))) :
                        ~IsMapping(ValueAt(ExistingObj, Append(at, key)))
                            => RecordedPreserved(Append(at, key))
    /\ (runs = 1 /\ existing = ExampleExistingJson /\ generated = ExampleGeneratedJson) =>
         /\ result.content = ExampleMergedJson
         /\ {"a", "b.c"} \subseteq Range(result.preserved)
         /\ {"b.d", "e"} \subseteq Range(result.added)

C4_Witness ==
    /\ runs = 1
    /\ existing = ExampleExistingJson
    /\ generated = ExampleGeneratedJson
    /\ locals.branch = "merged"
    /\ BothMappings(<<"b">>)
    /\ result = [content |-> ExampleMergedJson, preserved |-> <<"a", "b.c">>,
                 added |-> <<"b.d", "e">>]

ParseFails == ~locals.existingParse.ok \/ ~locals.generatedParse.ok

IsFallback ==
    /\ result.content = existing
    /\ result.preserved = <<"(parse error - kept existing)">>
    /\ result.added = <<>>

\* C10: whenever either text fails to parse as JSON, the result is the
\* existing text unchanged, preserved = ["(parse error - kept existing)"] and
\* added = [].
C10_ParseFailureFallback == (runs >= 1 /\ ParseFails) => IsFallback

\* C10, amended: the same when neither text is blank.
C10_ParseFailureFallbackNonBlank ==
    (runs >= 1 /\ ParseFails /\ ~IsBlank(existing) /\ ~IsBlank(generated)) => IsFallback

C10_Witness ==
    /\ runs = 1
    /\ existing = "{not json"
    /\ generated = "{\"a\":1}"
    /\ locals.branch = "parseError"
    /\ result = [content |-> "{not json",
                 preserved |-> <<"(parse error - kept existing)">>, added |-> <<>>]

BothParse == locals.existingParse.ok /\ locals.generatedParse.ok

\* Both texts parsed and the root of one of them is no plain mapping.
NonObjectRoot ==
    /\ runs >= 1
    /\ BothParse
    /\ (IsNotObject(ExistingObj) \/ IsNotObject(GeneratedObj))

\* The existing root is the content, and nothing is added.
KeepsExistingRoot ==
    /\ result.content = JsonStringify(ExistingObj) \o "\n"
    /\ result.added = <<>>

C12_PreambleMatchesPreamble ==
    MergedBoth =>
        LET es == ExistingSections
            gs == GeneratedSections
        IN  \A i \in 1..Len(gs) :
              /\ i <= Len(locals.mergedSections)
              /\ locals.mergedSections[i] \in
                    {gs[i].fullText} \cup
                    {es[j].fullText : j \in {k \in 1..Len(es) :
                                               IsPreamble(es[k]) = IsPreamble(gs[i])}}

\* ------------------------------------------------------------------------
\* JSON: further properties
\* ------------------------------------------------------------------------

\* C13: after every call preserved and added each hold every identifier
\* at most once.
C13_NoDuplicateIdentifiers ==
    runs >= 1 => (NoDuplicates(result.preserved) /\ NoDuplicates(result.added))

\* ------------------------------------------------------------------------
\* Markdown: provenance and regeneration
\* ------------------------------------------------------------------------

\* C14: after every call of mergeMarkdown no header occurs more than once
\* in preserved and none more than once in added.
C14_NoDuplicateHeaders ==
    runs >= 1 =>
        /\ Cardinality(Range(result.preserved)) = Len(result.preserved)
        /\ Cardinality(Range(result.added)) = Len(result.added)

\* C16: a regeneration run with the same generated document returns the
\* content the file already holds: the file neither changes nor grows.
C16_MarkdownRegenerationStable ==
    runs >= 2 => result.content = existing

\* ------------------------------------------------------------------------
\* JSON: regeneration
\* ------------------------------------------------------------------------

\* C17: a regeneration run with the same generated text returns the
\* content the file already holds, and adds nothing when both sides parse to
\* mappings.
C17_JsonRegenerationStable ==
    runs >= 2 =>
        /\ result.content = existing
        /\ (BothParse /\ IsMapping(ExistingObj) /\ IsMapping(GeneratedObj))
               => result.added = <<>>

\* ------------------------------------------------------------------------
\* All three mergers: exceptions
\* ------------------------------------------------------------------------

\* { content, preserved, added } with a string and two lists of strings
IsMergeResult(r) ==
    /\ DOMAIN r = {"content", "preserved", "added"}
    /\ r.content \in STRING
    /\ r.preserved \in Seq(STRING)
    /\ r.added \in Seq(STRING)

\* An exception left the call: only parseSimpleYaml has a statement outside
\* a try block that can raise one.
Threw == "threw" \in DOMAIN locals /\ locals.threw

\* C15: a call of mergeMarkdown, mergeYaml or mergeJson on any two texts
\* raises no exception and returns a MergeResult.
C15_NeverThrows ==
    runs >= 1 => (~Threw /\ IsMergeResult(result))

\* A YAML call whose texts hold sequence items under a key, under a scalar
\* and at the root.
C15_Witness ==
    /\ runs = 1
    /\ "threw" \in DOMAIN locals
    /\ existing = "b:\n  b: 1\n  - x"
    /\ generated = "- x\nno colon\n: v"
    /\ locals.branch = "merged"
    /\ IsMergeResult(result)

\* ------------------------------------------------------------------------
\* YAML: the supported subset and regeneration
\* ------------------------------------------------------------------------

\* The lines of the supported subset: `key: scalar`, `key:` and `- scalar`.
YamlLineKind(line) ==
    LET t == Trim(line) IN
    IF t = "" THEN "blank"
    ELSE IF StartsWith(t, "#") THEN "comment"
    ELSE IF StartsWith(t, "- ")
    THEN (IF Trim(From(t, 2)) = "" THEN "other"
          ELSE IF Includes(From(t, 2), ": ") \/ EndsWith(t, ":") THEN "mapitem"
          ELSE "item")
    ELSE IF IndexOf(t, ":") <= 0 THEN "other"
    ELSE IF Trim(From(t, IndexOf(t, ":") + 1)) = "" THEN "open"
    ELSE IF Ch(t, IndexOf(t, ":") + 2) = " " THEN "pair"
    ELSE "other"

RECURSIVE PopToLevel(_, _)
PopToLevel(levels, indent) ==
    IF levels[Len(levels)] = indent THEN levels
    ELSE PopToLevel(SubSeq(levels, 1, Len(levels) - 1), indent)

\* One line of a block-style document: levels are the indents of the open
\* mappings, open the indent of a `key:` line that waits for its value, seq
\* the indent of the items of the sequence being read.
SupportedStep(s, line) ==
    LET kind == YamlLineKind(line)
        indent == SearchNonSpace(line, 1)
    IN  IF ~s.ok \/ kind = "blank" THEN s
        ELSE IF kind = "item"
        THEN IF s.open >= 0 /\ indent > s.open
             THEN [s EXCEPT !.open = -1, !.seq = indent]
             ELSE IF s.seq = indent THEN s
             ELSE [s EXCEPT !.ok = FALSE]
        ELSE IF kind \in {"pair", "open"}
        THEN LET opened == IF kind = "open" THEN indent ELSE -1 IN
             IF s.open >= 0 /\ indent > s.open
             THEN [s EXCEPT !.levels = Append(@, indent), !.open = opened, !.seq = -1]
             ELSE IF indent \in Range(s.levels)
             THEN [s EXCEPT !.levels = PopToLevel(@, indent), !.open = opened, !.seq = -1]
             ELSE [s EXCEPT !.ok = FALSE]
        ELSE [s EXCEPT !.ok = FALSE]

RECURSIVE SupportedFrom(_, _, _)
SupportedFrom(s, lines, i) ==
    IF i > Len(lines) THEN s.ok
    ELSE SupportedFrom(SupportedStep(s, lines[i]), lines, i + 1)

\* A document of nested mappings, scalars and sequences of scalars in block
\* style, the root mapping at indent 0.
SupportedYaml(text) ==
    SupportedFrom([levels |-> <<0>>, open |-> -1, seq |-> -1, ok |-> TRUE],
                  SplitLines(text), 1)

\* C18: when the existing file and the generated text are in the supported
\* subset, the run after the first returns the content of the first run.
C18_YamlRegenerationStable ==
    [][(runs = 1 /\ runs' = 2 /\ SupportedYaml(existing) /\ SupportedYaml(generated))
           => result'.content = result.content]_vars

\* ------------------------------------------------------------------------
\* YAML: conversions
\* ------------------------------------------------------------------------

\* C19: a tree of the supported subset that is written out and read back is
\* the same tree, and so is the tree read from a document of the supported
\* subset.
C19_YamlRoundTrip ==
    (locals.branch = "reparsed" /\ (locals.from = "tree" \/ SupportedYaml(existing)))
        => locals.reparsed = locals.tree

\* The key of a `key:` or `key: value` line.
YamlKeyOf(line) == Trim(SubSeq(Trim(line), 1, IndexOf(Trim(line), ":")))

\* The keys of the `key:` lines that enclose line i, outermost first.
RECURSIVE EnclosingFrom(_, _, _)
EnclosingFrom(lines, j, indent) ==
    IF j < 1 THEN <<>>
    ELSE IF YamlLineKind(lines[j]) = "open" /\ SearchNonSpace(lines[j], 1) < indent
    THEN EnclosingFrom(lines, j - 1, SearchNonSpace(lines[j], 1)) \o <<YamlKeyOf(lines[j])>>
    ELSE EnclosingFrom(lines, j - 1, indent)

EnclosingKeys(lines, i) == EnclosingFrom(lines, i - 1, SearchNonSpace(lines[i], 1))

\* The values of the `- value` lines that follow from line j on.
RECURSIVE ItemValuesFrom(_, _)
ItemValuesFrom(lines, j) ==
    IF j > Len(lines) THEN <<>>
    ELSE IF YamlLineKind(lines[j]) = "blank" THEN ItemValuesFrom(lines, j + 1)
    ELSE IF YamlLineKind(lines[j]) = "item"
    THEN <<parseYamlValue(Trim(From(Trim(lines[j]), 2)))>> \o ItemValuesFrom(lines, j + 1)
    ELSE <<>>

\* Line i is a `key:` line with `- value` lines below it, and no other line
\* gives the same key of the same mapping a value.
HoldsSequence(lines, i) ==
    /\ YamlLineKind(lines[i]) = "open"
    /\ ItemValuesFrom(lines, i + 1) # <<>>
    /\ \A j \in 1..Len(lines) :
           (j # i /\ YamlLineKind(lines[j]) \in {"open", "pair"})
               => ~(/\ YamlKeyOf(lines[j]) = YamlKeyOf(lines[i])
                    /\ EnclosingKeys(lines, j) = EnclosingKeys(lines, i))

\* C20: in the tree read from a document of the supported subset, the
\* `- value` lines below a `key:` line are the items of a sequence that is
\* the value of that key in the mapping that holds the key.
C20_ItemsBoundToKey ==
    (locals.branch = "tree" /\ locals.from = "document" /\ SupportedYaml(existing)) =>
        LET lines == SplitLines(existing) IN
        \A i \in 1..Len(lines) :
            HoldsSequence(lines, i) =>
                LET parent == GetAt(locals.tree, EnclosingKeys(lines, i)) IN
                /\ parent.t = "obj"
                /\ HasOwn(parent, YamlKeyOf(lines[i]))
                /\ GetProperty(parent, YamlKeyOf(lines[i]))
                       = Arr(ItemValuesFrom(lines, i + 1))

\* The values at and below v.
RECURSIVE SubValues(_)
SubValues(v) ==
    {v} \cup
    (IF v.t = "obj" THEN UNION {SubValues(v.kv[i].v) : i \in 1..Len(v.kv)}
     ELSE IF v.t = "arr" THEN UNION {SubValues(v.items[i]) : i \in 1..Len(v.items)}
     ELSE {})

\* The `key: value` text of a `- key: value` line.
ItemPair(line) == Trim(From(Trim(line), 2))

\* The `key: value` lines below line i that are indented deeper than its dash.
RECURSIVE FieldLinesFrom(_, _, _)
FieldLinesFrom(lines, j, indent) ==
    IF j > Len(lines) THEN <<>>
    ELSE IF YamlLineKind(lines[j]) = "blank" THEN FieldLinesFrom(lines, j + 1, indent)
    ELSE IF YamlLineKind(lines[j]) = "pair" /\ SearchNonSpace(lines[j], 1) > indent
    THEN <<lines[j]>> \o FieldLinesFrom(lines, j + 1, indent)
    ELSE <<>>

\* The value a `key: value` text gives its key.
PairValue(pair) == parseYamlValue(Trim(From(pair, IndexOf(pair, ":") + 1)))

\* item is a mapping that holds the pair of line i and of every field line
\* below it.
IsItemOfLine(item, lines, i) ==
    LET fields == FieldLinesFrom(lines, i + 1, SearchNonSpace(lines[i], 1)) IN
    /\ item.t = "obj"
    /\ HasOwn(item, YamlKeyOf(ItemPair(lines[i])))
    /\ GetProperty(item, YamlKeyOf(ItemPair(lines[i]))) = PairValue(ItemPair(lines[i]))
    /\ \A f \in 1..Len(fields) :
           /\ HasOwn(item, YamlKeyOf(fields[f]))
           /\ GetProperty(item, YamlKeyOf(fields[f])) = PairValue(Trim(fields[f]))

\* C21: in the tree read from a document, every line `- key: value` is an
\* item of some sequence, the item is a mapping that holds the key, and the
\* deeper-indented `key: value` lines below it are fields of the same item.
C21_MappingItems ==
    (locals.branch = "tree" /\ locals.from = "document") =>
        LET lines == SplitLines(existing) IN
        \A i \in 1..Len(lines) :
            YamlLineKind(lines[i]) = "mapitem" =>
                \E v \in SubValues(locals.tree) :
                    /\ v.t = "arr"
                    /\ \E n \in 1..Len(v.items) : IsItemOfLine(v.items[n], lines, i)

\* ------------------------------------------------------------------------
\* YAML: scalars
\* ------------------------------------------------------------------------

\* The text with every backslash-quote pair replaced by the quote.
RECURSIVE Unescaped(_)
Unescaped(s) ==
    IF s = "" THEN ""
    ELSE IF Len(s) >= 2 /\ Ch(s, 1) = "\\" /\ Ch(s, 2) \in {"\"", "'"}
    THEN Ch(s, 2) \o Unescaped(From(s, 2))
    ELSE Ch(s, 1) \o Unescaped(From(s, 1))

\* A text of at least two characters that begins and ends with the same
\* quote character.
EnclosedInQuotes(text) ==
    /\ Len(text) >= 2
    /\ Ch(text, 1) \in {"\"", "'"}
    /\ Ch(text, Len(text)) = Ch(text, 1)

\* The value the precedence gives a scalar text; the empty text is null as
\* well.
CoercedScalar(text) ==
    IF EnclosedInQuotes(text) THEN Str(Unescaped(SubSeq(text, 2, Len(text) - 1)))
    ELSE IF ToLowerCase(text) = "true" THEN Bool(TRUE)
    ELSE IF ToLowerCase(text) = "false" THEN Bool(FALSE)
    ELSE IF text \in {"null", "~", ""} THEN Null
    ELSE IF IsIntegerText(text) THEN Num(IntegerOf(text))
    ELSE Str(text)

\* C22: parseYamlValue returns for every scalar text the value of the
\* precedence: quoted text without its quotes and with escaped quotes
\* unescaped, true and false in any letter case as booleans, null and ~ as
\* null, a number text as the number, any other text as the same string.
C22_ScalarCoercion ==
    locals.branch = "parsed" => locals.parsed = CoercedScalar(existing)

\* C29: a scalar that is written by formatYamlValue and read back by
\* parseYamlValue is the same scalar, of the same type.
C29_ScalarRoundTrip ==
    locals.branch = "reparsed" => locals.parsed = locals.value

\* ------------------------------------------------------------------------
\* Markdown: the sections of a document
\* ------------------------------------------------------------------------

\* The index of the first header line of the lines, 0 when there is none.
FirstHeaderLine(lines) ==
    LET at == {i \in 1..Len(lines) : IsHeaderLine(lines[i])}
    IN  IF at = {} THEN 0 ELSE Min(at)

\* The lines before the first header line, joined and trimmed.
TextBeforeFirstHeader(content) ==
    LET lines == SplitLines(content) IN
    Trim(Join(SubSeq(lines, 1, FirstHeaderLine(lines) - 1), "\n"))

\* C23: the sections of a document hold a preamble (level 0) at the first
\* place only, its raw header line is empty, and when there is text before
\* the first header line the first section is the preamble and its body is
\* that text, trimmed.
C23_PreambleSection ==
    locals.branch = "parsed" =>
        LET sections == locals.sections IN
        /\ \A i \in 1..Len(sections) :
               sections[i].level = 0 => (i = 1 /\ sections[i].rawHeader = "")
        /\ (FirstHeaderLine(SplitLines(existing)) > 0
              /\ TextBeforeFirstHeader(existing) # "")
               => /\ sections[1].level = 0
                  /\ sections[1].content = TextBeforeFirstHeader(existing)

\* ------------------------------------------------------------------------
\* analyzer.ts: properties
\* ------------------------------------------------------------------------

\* C24: projectNeedsCI answers true exactly when one of the six detected
\* needs (build, test, lint, typecheck, security, coverage) is true.
C24_AnyNeedMeansCI ==
    locals.branch = "answered" =>
        (locals.needsCI <=> \E need \in DOMAIN locals.ciNeeds : locals.ciNeeds[need])

\* ------------------------------------------------------------------------
\* The two tree mergers: properties
\* ------------------------------------------------------------------------

\* C25: on the same pair of mappings deepMergeJson and
\* deepMergePreserveExisting return the same mapping with the same key
\* order, and record the same set of paths in preserved and in added.
C25_MergersEquivalent ==
    (locals.branch = "merged" /\ locals.jsonIn = locals.yamlIn) =>
        /\ locals.jsonOut.result = locals.yamlOut.result
        /\ Range(locals.jsonOut.preserved) = Range(locals.yamlOut.preserved)
        /\ Range(locals.jsonOut.added) = Range(locals.yamlOut.added)

\* Every key path of tree is a key path of merged, with the same value where
\* the value in tree is no mapping.
Extends(merged, tree) ==
    \A at \in KeyPaths(tree) :
        /\ at \in KeyPaths(merged)
        /\ ~IsMapping(ValueAt(tree, at)) => ValueAt(merged, at) = ValueAt(tree, at)

\* C26: the tree deepMergeJson returns and the tree deepMergePreserveExisting
\* returns extend the existing tree of the first merge, after the first
\* merge and after every further merge.
C26_MergedExtendsExisting ==
    locals.branch = "merged" =>
        /\ Extends(locals.jsonOut.result, locals.original)
        /\ Extends(locals.yamlOut.result, locals.original)

\* ------------------------------------------------------------------------
\* Markdown: what the merge records and keeps
\* ------------------------------------------------------------------------

\* C27: after every call of mergeMarkdown no header text is both in
\* preserved and in added.
C27_PreservedAddedDisjoint ==
    runs >= 1 => Range(result.preserved) \cap Range(result.added) = {}

\* A merge of two non-blank documents that recorded headers in both lists.
C27_Witness ==
    MergedBoth /\ result.preserved # <<>> /\ result.added # <<>>

\* C28: when both inputs are non-blank, the text of every section of the
\* existing document, titled or preamble, sharing its normalized header with
\* another section or not, occurs in the merged content.
C28_NoExistingContentLost ==
    MergedBoth =>
        \A i \in 1..Len(ExistingSections) :
            Includes(result.content, Trim(ExistingSections[i].fullText))

\* ------------------------------------------------------------------------
\* Platforms: where the issue templates are written
\* ------------------------------------------------------------------------

\* The file name lies under the directory.
IsUnder(name, directory) == StartsWith(name, directory \o "/")

\* C30: every template file name getPlatformIssueTemplates returns for a
\* platform lies under the issueTemplatePath of that platform's entry in
\* PLATFORM_CONFIGS.
C30_TemplatesUnderIssueTemplatePath ==
    locals.branch = "templates" =>
        \A i \in 1..Len(locals.templates) :
            IsUnder(locals.templates[i].name,
                    PLATFORM_CONFIGS[locals.platform].issueTemplatePath)

====
